---- MODULE Spec2Model ----
(***************************************************************************)
(* Fabricia backend: the SQL job queue (backend/service/src/job_queue.rs)  *)
(* and the branch service (backend/service/src/branch.rs) over the shared  *)
(* tables `job_queue` and `branch`; the Redis lock (backend/src/redis.rs)  *)
(* and the migration gate (backend/service/src/database.rs); the worker    *)
(* loop and the watcher of the job runner (axis/jobrunner/src/lib.rs);     *)
(* the start-up of Axis (axis/axis/src/main.rs) and the bus of Axis and    *)
(* Crayon (axis/axis/src/bus.rs, crayon/crayon/src/bus.rs).                *)
(*                                                                         *)
(* Every SQL statement is one atomic step on the shared tables.  A         *)
(* fetch_and_start call is a SELECT step followed by a conditional UPDATE  *)
(* step, so that other pollers may run in between.                         *)
(***************************************************************************)
EXTENDS Integers, Sequences, FiniteSets, TLC

\* ---------------------------------------------------------------- bounds
NumWorkers == 2
NumCallers == 2
MaxJobs == 3
MaxBranches == 2
MaxReturns == 2
NumProcs == 2
MaxSleeps == 7
NumAxis == 2
MaxRunners == 2
MaxMsgs == 2
MaxSends == 2

\* ------------------------------------------------------ program constants
DefaultPriority == 100
max_connections == 3

Workers == 1..NumWorkers
Callers == 1..NumCallers

\* branch names callers use; "" is the "remove base" sentinel of update_config
Names == {"a", "b"}

\* Priorities a caller may pass (u16): ordinary values and the first value
\* whose `as i16` cast is negative.
Priorities == {100, 120, 32768}

\* ids a caller may name: every id that can exist and one that never does
BranchIds == 1..(MaxBranches + 1)
JobIds == 1..(MaxJobs + 1)

\* Option<T>
None == <<>>
Some(x) == <<x>>

\* JobCommand: the one variant SyncBranch(BranchRef)
SyncBranch(b) == [t |-> "SyncBranch", c |-> b]
JobCommands == {SyncBranch(1)}

\* commands over the part of the range of BranchRef that TLC's integers hold
CodecCommands == {SyncBranch(b) : b \in {0 - 2147483647, 0 - 10, 0, 1, 9, 10, 2147483647}}

VARIABLES
    job_queue,   \* table job_queue: set of rows
    clock,       \* the time Uuid::now_v7() reads: it advances with every id
    worker,      \* per poller: position inside fetch_and_start, its locals, what
                 \* the call returned and the ids whose UPDATE it lost
    enqLog,      \* history: enqueue calls in order, with the priority passed
    returned,    \* history: how many times fetch_and_start returned each job id
    last,        \* history: the call that has just returned (None after any
                 \* other step), with what it was given, what it returned and
                 \* what it changed in the tables
    branch,      \* table branch: set of rows
    branch_seq,  \* last value handed out by the branch id sequence
    caller,      \* per API caller: position inside a BranchService call, its
                 \* locals, its open transaction and what the call changed
    redis_lock,  \* Redis key lock:misc:sql-migration: None, or the value of the
                 \* holder and the minutes left before the key expires
    proc,        \* per process: position inside DatabaseService::new or
                 \* RedisService::lock, its arguments and locals
    unlock_task, \* per process: the task LockGuard::drop spawned
    schema,      \* are all migrations applied in the shared database
    max_size,    \* the size the connection pool was built with
    runner,      \* per worker task: position inside JobRunner::run
    notifier,    \* JobRunner::notifier: is a wake-up permit stored
    watcher,     \* the watcher task: position inside JobRunner::run_watcher,
                 \* the count of its sweep and the wake signals it has issued
    axis,        \* per Axis instance: position inside main, its configuration,
                 \* the service cell, the tasks spawned, the bus subscriber,
                 \* the wake signals its job runner was sent and the ways its
                 \* subscriber has failed to handle a message
    inbox,       \* per Axis instance: messages Redis has pushed to its
                 \* subscription and the subscriber has not taken yet
    bus_log,     \* the messages published to Redis, in order
    handled      \* per published message: the Axis instances that turned it
                 \* into a wake signal

qvars == <<job_queue, clock, worker, enqLog, returned>>
bvars == <<branch, branch_seq, caller>>
mvars == <<redis_lock, proc, unlock_task, schema, max_size>>
rvars == <<runner, notifier>>
busvars == <<axis, inbox, bus_log, handled>>
avars == <<watcher, busvars>>
xvars == <<mvars, rvars, avars>>
vars == <<job_queue, clock, worker, enqLog, returned, last,
          branch, branch_seq, caller,
          redis_lock, proc, unlock_task, schema, max_size, runner, notifier,
          watcher, axis, inbox, bus_log, handled>>

\* ------------------------------------------------------------ conversions
\* `priority as i16` (u16 -> i16, two's complement reinterpretation)
AsI16(p) == IF p >= 32768 THEN p - 65536 ELSE p

\* `self.priority as u16` (i16 -> u16)
AsU16(v) == IF v < 0 THEN v + 65536 ELSE v

\* JobCommand::serialize: (kind, payload) = (value["t"], value["c"])
serialize(cmd) == <<cmd.t, cmd.c>>

\* variant: the tag of the variant is expected in kebab-case
deserialize_kebab_tag(kind, value) ==
    IF kind = "sync-branch" /\ value \in Int
    THEN [ok |-> TRUE, cmd |-> [t |-> "SyncBranch", c |-> value]]
    ELSE [ok |-> FALSE, cmd |-> None]

\* JobCommand::deserialize: rebuild {"t": kind, "c": value} and decode it;
\* only the tag of a defined variant decodes.
deserialize(kind, value) ==
    IF kind = "SyncBranch" /\ value \in Int
    THEN [ok |-> TRUE, cmd |-> [t |-> kind, c |-> value]]
    ELSE [ok |-> FALSE, cmd |-> None]

\* the characters of the decimal digits
DigitChars == <<"0", "1", "2", "3", "4", "5", "6", "7", "8", "9">>

\* the decimal digits of a natural number, most significant first
RECURSIVE Digits(_)
Digits(n) ==
    IF n < 10 THEN <<DigitChars[n + 1]>>
    ELSE Append(Digits(n \div 10), DigitChars[(n % 10) + 1])

\* the natural number a sequence of decimal digits denotes
RECURSIVE Number(_)
Number(ds) ==
    IF Len(ds) = 0 THEN 0
    ELSE 10 * Number(SubSeq(ds, 1, Len(ds) - 1))
         + (CHOOSE d \in 0..9 : DigitChars[d + 1] = ds[Len(ds)])

\* ToSql<XJson, Sqlite> for XJsonVal: serde_json::to_string of the value,
\* here a JSON integer: an optional minus sign and the digits
to_sql(value) ==
    IF value < 0 THEN <<"-">> \o Digits(0 - value) ELSE Digits(value)

\* FromSql<XJson, Sqlite> for XJsonVal: serde_json::from_str of the column
from_sql(text) ==
    IF Len(text) > 0 /\ text[1] = "-" THEN 0 - Number(Tail(text))
    ELSE Number(text)

\* -------------------------------------------------------------- job queue
\* the row inserted by enqueue_with_priority
job_row(id, job, priority) ==
    [id |-> id,
     kind |-> serialize(job)[1],
     data |-> to_sql(serialize(job)[2]),
     priority |-> AsI16(priority),
     started_at |-> None]

\* .filter(started_at.is_null())
pending_filter(r) == r.started_at = None

Pending(jq) == {r \in jq : pending_filter(r)}

\* variant: ties broken by id descending
order_before_id_desc(a, b) ==
    \/ a.priority > b.priority
    \/ a.priority = b.priority /\ a.id > b.id

\* .order((priority.desc(), id.asc()))
order_before(a, b) ==
    \/ a.priority > b.priority
    \/ a.priority = b.priority /\ a.id < b.id

\* variant: the SELECT has no filter on started_at
select_pending_any(jq) ==
    IF jq = {} THEN None
    ELSE Some(CHOOSE r \in jq : \A o \in jq \ {r} : order_before(r, o))

\* limit(1) of the ordered pending rows, .optional()
select_pending(jq) ==
    IF Pending(jq) = {} THEN None
    ELSE Some(CHOOSE r \in Pending(jq) :
                \A o \in Pending(jq) \ {r} : order_before(r, o))

\* variant: the UPDATE filters on the id alone
claim_filter_id_only(r, id) == r.id = id

\* update(job_queue).filter(id.eq(id).and(started_at.is_null()))
claim_filter(r, id) == r.id = id /\ r.started_at = None

\* variant: the UPDATE leaves started_at as it was
claim_row_unset(r, time) == r

\* .set(started_at.eq(time))
claim_row(r, time) == [r EXCEPT !.started_at = Some(time)]

\* variant: the DELETE filters on the id alone
finish_filter_id_only(r, id) == r.id = id

\* delete(job_queue).filter(id.eq(id).and(started_at.is_not_null()))
finish_filter(r, id) == r.id = id /\ r.started_at # None

\* OffsetDateTime::now_utc() as a PrimitiveDateTime: the code only ever tests
\* the column for NULL, so one timestamp value stands for all of them
now_utc == "now"

IdleWorker ==
    [pc |-> "idle", time |-> now_utc, sel |-> None, ret |-> [kind |-> "none"], lost |-> {}]

AllIdle == \A w \in Workers : worker[w].pc = "idle"

\* connections checked out of the pool (every call in progress holds one)
ConnsInUse ==
    Cardinality({w \in Workers : worker[w].pc # "idle"})
    + Cardinality({c \in Callers : caller[c].pc # "idle"})

\* track calls that will still enqueue a job
TracksInFlight ==
    Cardinality({c \in Callers : caller[c].pc \in {"t_resolve", "t_insert", "t_enqueue"}})

\* jobs enqueued so far plus those in-flight calls will enqueue
JobBudget == Len(enqLog) + TracksInFlight

QInit ==
    /\ job_queue = {}
    /\ clock = 0
    /\ worker = [w \in Workers |-> IdleWorker]
    /\ enqLog = <<>>
    /\ returned = [id \in JobIds |-> 0]
    /\ last = None

\* JobQueue::enqueue_with_priority on an autocommit connection
enqueue_with_priority(job, priority) ==
    /\ JobBudget < MaxJobs
    /\ clock' = clock + 1
    /\ LET id == clock' IN
        /\ job_queue' = job_queue \cup {job_row(id, job, priority)}
        /\ enqLog' = Append(enqLog, [id |-> id, priority |-> priority, cmd |-> job])
    /\ last' = None
    /\ UNCHANGED <<worker, returned, branch, branch_seq, caller>>
    /\ UNCHANGED xvars

\* JobQueue::enqueue
enqueue(job) == enqueue_with_priority(job, DefaultPriority)

\* fetch_and_start: self.db.get()
fetch_and_start_begin(w) ==
    /\ worker[w].pc = "idle"
    /\ ConnsInUse < max_size
    /\ worker' = [worker EXCEPT ![w] =
            [IdleWorker EXCEPT !.pc = "select"]]
    /\ last' = None
    /\ UNCHANGED <<job_queue, clock, enqLog, returned, branch, branch_seq, caller>>
    /\ UNCHANGED xvars

\* fetch_and_start: the SELECT of one loop iteration
fetch_and_start_select(w) ==
    /\ worker[w].pc = "select"
    /\ LET result == select_pending(job_queue) IN
        IF result # None
        THEN worker' = [worker EXCEPT ![w].pc = "update",
                                      ![w].time = now_utc,
                                      ![w].sel = Some([id |-> result[1].id,
                                                       kind |-> result[1].kind,
                                                       data |-> result[1].data])]
        ELSE worker' = [worker EXCEPT ![w].pc = "idle",
                                      ![w].time = now_utc,
                                      ![w].sel = None,
                                      ![w].ret = [kind |-> "empty"]]
    /\ last' = IF select_pending(job_queue) # None THEN None
               ELSE Some([op |-> "fetch_and_start", w |-> w, ret |-> "empty",
                          id |-> 0, claimed |-> {}, left |-> Pending(job_queue)])
    /\ UNCHANGED <<job_queue, clock, enqLog, returned, branch, branch_seq, caller>>
    /\ UNCHANGED xvars

\* fetch_and_start: the conditional UPDATE and what follows it
fetch_and_start_update(w) ==
    /\ worker[w].pc = "update"
    /\ LET s == worker[w].sel[1]
           hit == {r \in job_queue : claim_filter(r, s.id)}
           cols == Cardinality(hit)
           cmd == deserialize(s.kind, from_sql(s.data))
       IN
        /\ job_queue' = (job_queue \ hit) \cup
                {claim_row(r, worker[w].time) : r \in hit}
        /\ IF cols = 0
           THEN /\ worker' = [worker EXCEPT ![w].pc = "select", ![w].sel = None,
                                             ![w].lost = @ \cup {s.id}]
                /\ last' = None
                /\ UNCHANGED returned
           ELSE IF cmd.ok
           THEN /\ worker' = [worker EXCEPT ![w].pc = "idle", ![w].sel = None,
                        ![w].ret = [kind |-> "job", id |-> s.id, command |-> cmd.cmd]]
                /\ returned[s.id] < MaxReturns
                /\ returned' = [returned EXCEPT ![s.id] = @ + 1]
                /\ last' = Some([op |-> "fetch_and_start", w |-> w, ret |-> "job",
                                 id |-> s.id, claimed |-> hit,
                                 left |-> Pending(job_queue')])
           ELSE /\ worker' = [worker EXCEPT ![w].pc = "idle", ![w].sel = None,
                        ![w].ret = [kind |-> "err"]]
                /\ last' = Some([op |-> "fetch_and_start", w |-> w, ret |-> "err",
                                 id |-> s.id, claimed |-> hit,
                                 left |-> Pending(job_queue')])
                /\ UNCHANGED returned
    /\ UNCHANGED <<clock, enqLog, branch, branch_seq, caller>>
    /\ UNCHANGED xvars

\* history: where the job `id` stands in table jq
JobState(jq, id) ==
    IF \A r \in jq : r.id # id THEN "absent"
    ELSE IF \E r \in jq : r.id = id /\ r.started_at = None THEN "unclaimed"
    ELSE "claimed"

\* variant: the number of deleted rows is not looked at
finish_result_always_ok(cols) == "Ok"

\* finish_job: if cols == 0 { return Err(JobAborted(id)) } Ok(())
finish_result(cols) == IF cols = 0 THEN "JobAborted" ELSE "Ok"

\* JobQueue::finish_job on an autocommit connection; the DELETE is one
\* statement, so two callers finishing the same job run it one after the
\* other (before: what the call just before this one returned for this id)
finish_job(id) ==
    /\ LET hit == {r \in job_queue : finish_filter(r, id)}
           cols == Cardinality(hit)
       IN
        /\ job_queue' = job_queue \ hit
        /\ last' = Some([op |-> "finish_job", id |-> id,
                         ret |-> finish_result(cols),
                         before |-> IF last # None /\ last[1].op = "finish_job"
                                       /\ last[1].id = id
                                    THEN last[1].ret ELSE "none",
                         was |-> JobState(job_queue, id),
                         delJ |-> job_queue \ job_queue',
                         addJ |-> job_queue' \ job_queue])
    /\ UNCHANGED <<clock, worker, enqLog, returned, branch, branch_seq, caller>>
    /\ UNCHANGED xvars

\* --------------------------------------------------------- branch service
\* BranchConfigInfo { base, priority, tracking_mode }
NoInfo == [base |-> None, priority |-> None, tracking_mode |-> None]
InfoBases == {None, Some("a"), Some("")}
InfoPriorities == {None, Some(32768)}
InfoTracking == {None, Some("Unmanaged")}
Infos == [base : InfoBases, priority : InfoPriorities, tracking_mode : InfoTracking]

\* Option::unwrap_or
unwrap_or(o, d) == IF o = None THEN d ELSE o[1]

\* SqlBranchStatus::Dirty as i16
Dirty == 0

\* TrackingMode / SqlTrackingMode discriminant as i16
tracking_i16(m) == IF m = "Auto" THEN 0 ELSE 1

\* writes of an open transaction, invisible to other connections until commit
EmptyTx == [insB |-> {}, insJ |-> {}, delB |-> {}]

IdleCaller ==
    [pc |-> "idle", op |-> "none", name |-> "", id |-> 0, info |-> NoInfo,
     base |-> None, new_id |-> 0, tx |-> EmptyTx, err |-> "none",
     found |-> FALSE, faults |-> {}, addB |-> {}, delB |-> {}, addJ |-> {}, delJ |-> {},
     end |-> <<"none", "none">>]

\* history: fold what this step changed in the two tables into the record of
\* the call that took the step
Observed(rec) ==
    [rec EXCEPT !.addB = @ \cup (branch' \ branch),
                !.delB = @ \cup (branch \ branch'),
                !.addJ = @ \cup (job_queue' \ job_queue),
                !.delJ = @ \cup (job_queue \ job_queue')]

BInit ==
    /\ branch = {}
    /\ branch_seq = 0
    /\ caller = [c \in Callers |-> IdleCaller]

\* what the database answers to BEGIN, COMMIT and ROLLBACK
BeginOutcomes == {"Ok", "Err"}
CommitOutcomes == {"Ok", "Err"}
RollbackOutcomes == {"Ok", "BrokenTransactionManager", "Err"}

\* variant: the answer to COMMIT is not looked at
commit_result_always_ok(commit) == "Ok"

\* BoxedSqlConn::transaction, Ok(value) arm: commit_transaction(conn)?; Ok(value)
commit_result(commit) == IF commit = "Ok" THEN "Ok" ELSE "CommitError"

\* variant: a failed rollback always wins over the callback's error
transaction_error_rollback_first(user_error, rollback) ==
    IF rollback = "Ok" THEN user_error ELSE "RollbackError"

\* BoxedSqlConn::transaction, Err(user_error) arm: the error returned
transaction_error(user_error, rollback) ==
    IF rollback = "Ok" THEN user_error
    ELSE IF rollback = "BrokenTransactionManager" THEN user_error
    ELSE "RollbackError"

\* variant: the branch insert is not undone (it ran outside the transaction)
rollback_keeps_branch(tx) == [insB |-> tx.insB, insJ |-> {}, delB |-> {}]

\* rollback_transaction: the writes of the transaction that are kept
rollback_transaction(tx) == EmptyTx

\* commit_transaction: the writes of the transaction that become visible
commit_transaction(tx) == tx

\* a transaction's writes applied to the tables
apply_branch(tx) == {r \in branch : r.id \notin tx.delB} \cup tx.insB

\* variant: the jobs of a deleted branch are deleted with it
apply_job_cascade(tx) ==
    {j \in job_queue : ~(j.kind = "SyncBranch" /\ from_sql(j.data) \in tx.delB)}
        \cup tx.insJ

\* a transaction's writes applied to table job_queue
apply_job(tx) == job_queue \cup tx.insJ

\* BranchService::find_id
find_id(name) ==
    IF \E r \in branch : r.name = name
    THEN Some((CHOOSE r \in branch : r.name = name).id)
    ELSE None

\* variant: an unknown name resolves to the default id instead of an error
find_id_or_default(name) ==
    IF find_id(name) = None
    THEN [ok |-> TRUE, id |-> 0, err |-> "none"]
    ELSE [ok |-> TRUE, id |-> find_id(name)[1], err |-> "none"]

\* BranchService::find_id_or_err
find_id_or_err(name) ==
    IF find_id(name) = None
    THEN [ok |-> FALSE, id |-> 0, err |-> "BranchNameNotFound"]
    ELSE [ok |-> TRUE, id |-> find_id(name)[1], err |-> "none"]

\* variant: the affected-row count is not looked at
non_zero_ignored(val) == "Ok"

\* non_zero_or_not_found
non_zero_or_not_found(val) == IF val = 0 THEN "BranchNotFound" ELSE "Ok"

\* branch.name is UNIQUE: an insert of a name a committed row carries fails
name_taken(name) == \E r \in branch : r.name = name

\* the unique index makes an insert wait for an open transaction that has
\* inserted the same name
name_locked(c, name) ==
    \E o \in Callers \ {c} : \E r \in caller[o].tx.insB : r.name = name

\* a row deleted by an open transaction is locked for other writers
row_locked(c, id) == \E o \in Callers \ {c} : id \in caller[o].tx.delB

\* variant: the row is inserted as Ready
branch_row_ready(id, name, base, priority, info) ==
    [id |-> id,
     name |-> name,
     status |-> 1,
     base |-> base,
     priority |-> AsI16(priority),
     tracking |-> tracking_i16(unwrap_or(info.tracking_mode, "Auto"))]

\* the row inserted by track
branch_row(id, name, base, priority, info) ==
    [id |-> id,
     name |-> name,
     status |-> Dirty,
     base |-> base,
     priority |-> AsI16(priority),
     tracking |-> tracking_i16(unwrap_or(info.tracking_mode, "Auto"))]

\* history: does a committed branch row carry this id / this name
IdExists(id) == \E r \in branch : r.id = id
NameExists(name) == \E r \in branch : r.name = name

\* history: the record of a call that returns `result`
Returned(c, rec, result) ==
    Some([op |-> rec.op, c |-> c, name |-> rec.name, id |-> rec.id,
          info |-> rec.info, base |-> rec.base, new_id |-> rec.new_id,
          found |-> rec.found, faults |-> rec.faults, addB |-> rec.addB, delB |-> rec.delB,
          addJ |-> rec.addJ, delJ |-> rec.delJ, tx |-> rec.tx, err |-> rec.err,
          end |-> rec.end, ret |-> result])

\* track: self.db.get() and begin_transaction
track_begin(c, name, info) ==
    /\ caller[c].pc = "idle"
    /\ ConnsInUse < max_size
    /\ branch_seq + TracksInFlight < MaxBranches
    /\ JobBudget < MaxJobs
    /\ \E begin \in BeginOutcomes :
        LET rec == [IdleCaller EXCEPT !.op = "track", !.name = name, !.info = info,
                        !.found = info.base # None /\ NameExists(info.base[1]),
                        !.faults = IF begin = "Ok" THEN {} ELSE {"begin"}]
        IN
        IF begin = "Ok"
        THEN /\ caller' = [caller EXCEPT ![c] =
                    [rec EXCEPT !.pc = IF info.base # None THEN "t_resolve"
                                       ELSE "t_insert"]]
             /\ last' = None
        ELSE /\ caller' = [caller EXCEPT ![c] = IdleCaller]
             /\ last' = Returned(c, rec, "BeginError")
    /\ UNCHANGED <<branch, branch_seq, qvars>>
    /\ UNCHANGED xvars

\* the route new_branch of Crayon: a name find_id resolves is refused with
\* NOT_ACCEPTABLE, any other is handed to track
new_branch(c, name, info) ==
    IF find_id(name) # None
    THEN /\ caller[c].pc = "idle"
         /\ last' = Some([op |-> "new_branch", c |-> c, name |-> name,
                          ret |-> "NOT_ACCEPTABLE"])
         /\ UNCHANGED <<branch, branch_seq, caller, qvars>>
         /\ UNCHANGED xvars
    ELSE track_begin(c, name, info)

\* track: resolve the base name (find_id_or_err checks out its own connection)
track_resolve(c) ==
    /\ caller[c].pc = "t_resolve"
    /\ ConnsInUse < max_size
    /\ LET base == find_id_or_err(caller[c].info.base[1]) IN
        caller' = [caller EXCEPT ![c] =
            IF base.ok
            THEN [@ EXCEPT !.pc = "t_insert", !.base = Some(base.id),
                           !.found = NameExists(caller[c].info.base[1])]
            ELSE [@ EXCEPT !.pc = "rollback", !.err = base.err,
                           !.found = NameExists(caller[c].info.base[1])]]
    /\ last' = None
    /\ UNCHANGED <<branch, branch_seq, qvars>>
    /\ UNCHANGED xvars

\* track: insert_into(branch) ... returning(id), inside the transaction
track_insert_branch(c) ==
    /\ caller[c].pc = "t_insert"
    /\ ~name_locked(c, caller[c].name)
    /\ branch_seq' = branch_seq + 1
    /\ LET me == caller[c]
           priority == unwrap_or(me.info.priority, DefaultPriority)
           row == branch_row(branch_seq', me.name, me.base, priority, me.info)
       IN
        caller' = [caller EXCEPT ![c] =
            IF name_taken(me.name)
            THEN [@ EXCEPT !.pc = "rollback", !.err = "InsertError"]
            ELSE [@ EXCEPT !.pc = "t_enqueue", !.new_id = row.id,
                           !.tx = [@ EXCEPT !.insB = @ \cup {row}]]]
    /\ last' = None
    /\ UNCHANGED <<branch, qvars>>
    /\ UNCHANGED xvars

\* track: job_queue.enqueue_with_priority(conn, SyncBranch(id), priority)
track_enqueue(c) ==
    /\ caller[c].pc = "t_enqueue"
    /\ clock' = clock + 1
    /\ LET me == caller[c]
           priority == unwrap_or(me.info.priority, DefaultPriority)
           job == SyncBranch(me.new_id)
           row == job_row(clock', job, priority)
       IN
        /\ enqLog' = Append(enqLog, [id |-> row.id, priority |-> priority, cmd |-> job])
        /\ \E inserted \in BOOLEAN :
            caller' = [caller EXCEPT ![c] =
                IF inserted
                THEN [@ EXCEPT !.pc = "commit", !.tx = [@ EXCEPT !.insJ = @ \cup {row}]]
                ELSE [@ EXCEPT !.pc = "rollback", !.err = "EnqueueError",
                               !.faults = @ \cup {"enqueue"}]]
    /\ last' = None
    /\ UNCHANGED <<branch, branch_seq, job_queue, worker, returned>>
    /\ UNCHANGED xvars

\* transaction: callback returned Ok, commit_transaction
transaction_commit(c) ==
    /\ caller[c].pc = "commit"
    /\ \E commit \in CommitOutcomes :
        LET tx == IF commit = "Ok" THEN commit_transaction(caller[c].tx)
                  ELSE rollback_transaction(caller[c].tx)
        IN
        /\ branch' = apply_branch(tx)
        /\ job_queue' = apply_job(tx)
        /\ last' = Returned(c, Observed([caller[c] EXCEPT
                                !.end = <<"commit", commit>>,
                                !.faults = IF commit = "Ok" THEN @ ELSE @ \cup {"commit"}]),
                            commit_result(commit))
    /\ caller' = [caller EXCEPT ![c] = IdleCaller]
    /\ UNCHANGED <<branch_seq, clock, worker, enqLog, returned>>
    /\ UNCHANGED xvars

\* transaction: callback returned Err(user_error), rollback_transaction
transaction_rollback(c) ==
    /\ caller[c].pc = "rollback"
    /\ \E rollback \in RollbackOutcomes :
        LET tx == rollback_transaction(caller[c].tx) IN
        /\ branch' = apply_branch(tx)
        /\ job_queue' = apply_job(tx)
        /\ last' = Returned(c, Observed([caller[c] EXCEPT
                                !.end = <<"rollback", rollback>>,
                                !.faults = IF rollback = "Err" THEN @ \cup {"rollback"} ELSE @]),
                            transaction_error(caller[c].err, rollback))
    /\ caller' = [caller EXCEPT ![c] = IdleCaller]
    /\ UNCHANGED <<branch_seq, clock, worker, enqLog, returned>>
    /\ UNCHANGED xvars

\* untrack: self.db.get() and begin_transaction
untrack_begin(c, id) ==
    /\ caller[c].pc = "idle"
    /\ ConnsInUse < max_size
    /\ \E begin \in BeginOutcomes :
        LET rec == [IdleCaller EXCEPT !.op = "untrack", !.id = id,
                        !.found = IdExists(id),
                        !.faults = IF begin = "Ok" THEN {} ELSE {"begin"}]
        IN
        IF begin = "Ok"
        THEN /\ caller' = [caller EXCEPT ![c] = [rec EXCEPT !.pc = "u_delete"]]
             /\ last' = None
        ELSE /\ caller' = [caller EXCEPT ![c] = IdleCaller]
             /\ last' = Returned(c, rec, "BeginError")
    /\ UNCHANGED <<branch, branch_seq, qvars>>
    /\ UNCHANGED xvars

\* delete(branch).filter(id.eq(id))
untrack_filter(r, id) == r.id = id

\* untrack: the DELETE inside the transaction and non_zero_or_not_found
untrack_delete(c) ==
    /\ caller[c].pc = "u_delete"
    /\ ~row_locked(c, caller[c].id)
    /\ LET hit == {r \in branch : untrack_filter(r, caller[c].id)}
           res == non_zero_or_not_found(Cardinality(hit))
       IN
        caller' = [caller EXCEPT ![c] =
            IF res = "Ok"
            THEN [@ EXCEPT !.pc = "commit", !.found = IdExists(caller[c].id),
                           !.tx = [@ EXCEPT !.delB = @ \cup {r.id : r \in hit}]]
            ELSE [@ EXCEPT !.pc = "rollback", !.found = IdExists(caller[c].id),
                           !.err = res]]
    /\ last' = None
    /\ UNCHANGED <<branch, branch_seq, qvars>>
    /\ UNCHANGED xvars

\* update_config: self.db.get(), then the match on info.base
update_config_begin(c, id, info) ==
    /\ caller[c].pc = "idle"
    /\ ConnsInUse < max_size
    /\ LET rec == [IdleCaller EXCEPT !.op = "update_config", !.id = id, !.info = info,
                                     !.found = IdExists(id)]
       IN
        caller' = [caller EXCEPT ![c] =
            IF info.base = None THEN [rec EXCEPT !.pc = "c_update", !.base = None]
            ELSE IF info.base[1] = "" THEN [rec EXCEPT !.pc = "c_update", !.base = Some(None)]
            ELSE [rec EXCEPT !.pc = "c_resolve"]]
    /\ last' = None
    /\ UNCHANGED <<branch, branch_seq, qvars>>
    /\ UNCHANGED xvars

\* update_config: resolve the new base name (find_id_or_err checks out its own
\* connection); an unknown name is returned by `?`
update_config_resolve(c) ==
    /\ caller[c].pc = "c_resolve"
    /\ ConnsInUse < max_size
    /\ LET base == find_id_or_err(caller[c].info.base[1])
           rec == [caller[c] EXCEPT !.found = IdExists(caller[c].id)]
       IN
        IF base.ok
        THEN /\ caller' = [caller EXCEPT ![c] =
                    [rec EXCEPT !.pc = "c_update", !.base = Some(Some(base.id))]]
             /\ last' = None
        ELSE /\ caller' = [caller EXCEPT ![c] = IdleCaller]
             /\ last' = Returned(c, rec, base.err)
    /\ UNCHANGED <<branch, branch_seq, qvars>>
    /\ UNCHANGED xvars

\* SqlBranchConfig { id, base, priority, tracking }: the AsChangeset columns
\* (the primary key is not one of them)
SqlBranchConfig(id, base, info) ==
    [id |-> id,
     base |-> base,
     priority |-> IF info.priority = None THEN None
                  ELSE Some(AsI16(info.priority[1])),
     tracking |-> IF info.tracking_mode = None THEN None
                  ELSE Some(tracking_i16(info.tracking_mode[1]))]

\* a changeset whose fields are all None sets no column, and the statement
\* fails to build
changeset_is_noop(cs) == cs.base = None /\ cs.priority = None /\ cs.tracking = None

\* variant: the changeset also sets the name column
apply_changeset_renames(r, cs) ==
    [r EXCEPT !.name = "b",
              !.base = IF cs.base = None THEN @ ELSE cs.base[1],
              !.priority = IF cs.priority = None THEN @ ELSE cs.priority[1],
              !.tracking = IF cs.tracking = None THEN @ ELSE cs.tracking[1]]

\* SET clause of the changeset applied to one row
apply_changeset(r, cs) ==
    [r EXCEPT !.base = IF cs.base = None THEN @ ELSE cs.base[1],
              !.priority = IF cs.priority = None THEN @ ELSE cs.priority[1],
              !.tracking = IF cs.tracking = None THEN @ ELSE cs.tracking[1]]

\* update(dsl::branch): the statement's target is the table, it has no filter
update_config_filter(r, cs) == TRUE

\* update_config: the UPDATE and non_zero_or_not_found
update_config_execute(c) ==
    /\ caller[c].pc = "c_update"
    /\ LET me == caller[c]
           cs == SqlBranchConfig(me.id, me.base, me.info)
           hit == {r \in branch : update_config_filter(r, cs)}
           rec == [me EXCEPT !.found = IdExists(me.id)]
       IN
        /\ \A r \in hit : ~row_locked(c, r.id)
        /\ UNCHANGED <<branch_seq, qvars>>
        /\ branch' = IF changeset_is_noop(cs) THEN branch
                     ELSE (branch \ hit) \cup {apply_changeset(r, cs) : r \in hit}
        /\ last' = Returned(c, Observed(rec),
                        IF changeset_is_noop(cs) THEN "QueryBuilderError"
                        ELSE non_zero_or_not_found(Cardinality(hit)))
    /\ caller' = [caller EXCEPT ![c] = IdleCaller]
    /\ UNCHANGED xvars

\* ------------------------------------------- distributed lock, migrations
Procs == 1..NumProcs

\* redis.lock("sql-migration", Duration::minutes(5))
MigrationKey == "lock:misc:sql-migration"
MigrationTtl == "minutes(5)"
TtlMinutes == 5

\* `ttl` arguments of RedisService::lock: the one DatabaseService::new passes,
\* one rslock refuses as too large, and a negative time::Duration
Ttls == {MigrationTtl, "too_large", "negative"}

\* let mut delay = Duration::milliseconds(50), and the bound it is compared to
InitialDelay == 50
BackoffLimit == 3000

\* DatabaseConfig::url with the build it runs under: a shared server, or the
\* in-memory embedded engine (a database per connection) without and with
\* cfg(test)
Deployments ==
    {[url |-> "postgres://", test |-> FALSE],
     [url |-> "sqlite://:memory:", test |-> FALSE],
     [url |-> "sqlite://:memory:", test |-> TRUE]}

IdleProc ==
    [pc |-> "init", op |-> "none", url |-> "", test |-> FALSE, ttl |-> "",
     delay |-> 0, sleeps |-> 0,
     guard |-> FALSE, pool_schema |-> FALSE, ret |-> "none", got |-> None]

MInit ==
    /\ redis_lock = None
    /\ proc = [p \in Procs |-> IdleProc]
    /\ unlock_task = [p \in Procs |-> "none"]
    /\ schema = FALSE
    /\ max_size = max_connections

\* what one self.locker.lock(key, ttl) attempt can answer
LockOutcomes(ttl) ==
    IF ttl = "too_large" THEN {"TtlTooLarge"}
    ELSE IF redis_lock = None THEN {"Ok", "Unavailable"}
    ELSE {"Unavailable"}

\* if delay <= Duration::seconds(3) { delay *= 2 }
next_delay(delay) == IF delay <= BackoffLimit THEN delay * 2 ELSE delay

\* DatabaseService::new: build the pool, then redis.lock("sql-migration", 5 min)
new_begin(p, d) ==
    /\ proc[p].pc = "init"
    /\ proc' = [proc EXCEPT ![p] = [IdleProc EXCEPT !.pc = "lock", !.op = "new",
                    !.url = d.url, !.test = d.test, !.ttl = MigrationTtl,
                    !.delay = InitialDelay]]
    /\ UNCHANGED <<redis_lock, unlock_task, schema, max_size, rvars, avars, qvars, bvars, last>>

\* RedisService::lock called with any ttl
lock_begin(p, ttl) ==
    /\ proc[p].pc = "init"
    /\ proc' = [proc EXCEPT ![p] = [IdleProc EXCEPT !.pc = "lock", !.op = "lock",
                    !.ttl = ttl, !.delay = InitialDelay]]
    /\ UNCHANGED <<redis_lock, unlock_task, schema, max_size, rvars, avars, qvars, bvars, last>>

\* where a call of `op` continues when lock returns Ok / returns an error
after_lock_ok(op) == IF op = "new" THEN "create" ELSE "holding"
after_lock_err(op) == IF op = "new" THEN "failed" ELSE "done"

\* variant: every failed attempt is returned to the caller
on_lock_error_give_up(outcome) == "return"

\* the Err arms of the match: TtlTooLarge is returned, anything else retried
on_lock_error(outcome) == IF outcome = "TtlTooLarge" THEN "return" ELSE "sleep"

\* RedisService::lock: one iteration of the loop up to the sleep; `delay` is
\* a local of the call and is gone when it returns
lock_attempt(p) ==
    /\ proc[p].pc = "lock"
    /\ IF proc[p].ttl = "negative"
       THEN /\ proc' = [proc EXCEPT ![p].pc = after_lock_err(proc[p].op),
                                    ![p].delay = 0, ![p].sleeps = 0,
                                    ![p].ret = "TimeConversionError"]
            /\ UNCHANGED redis_lock
       ELSE \E outcome \in LockOutcomes(proc[p].ttl) :
            IF outcome = "Ok"
            THEN /\ redis_lock' = Some([val |-> p, left |-> TtlMinutes])
                 /\ proc' = [proc EXCEPT ![p].pc = after_lock_ok(proc[p].op),
                                         ![p].delay = 0, ![p].sleeps = 0,
                                         ![p].guard = TRUE,
                                         ![p].ret = "Ok"]
            ELSE IF on_lock_error(outcome) = "return"
            THEN /\ proc' = [proc EXCEPT ![p].pc = after_lock_err(proc[p].op),
                                         ![p].delay = 0, ![p].sleeps = 0,
                                         ![p].ret = outcome]
                 /\ UNCHANGED redis_lock
            ELSE /\ proc[p].sleeps < MaxSleeps
                 /\ proc' = [proc EXCEPT ![p].pc = "sleep",
                                         ![p].sleeps = @ + 1]
                 /\ UNCHANGED redis_lock
    /\ UNCHANGED <<unlock_task, schema, max_size, rvars, avars, qvars, bvars, last>>

\* RedisService::lock: tokio::time::sleep(delay) is over, the delay is updated
lock_sleep(p) ==
    /\ proc[p].pc = "sleep"
    /\ proc' = [proc EXCEPT ![p].pc = "lock",
                            ![p].delay = next_delay(proc[p].delay)]
    /\ UNCHANGED <<redis_lock, unlock_task, schema, max_size, rvars, avars, qvars, bvars, last>>

\* a minute passes for the key in Redis; it expires when its TTL is used up
ttl_tick ==
    /\ redis_lock # None
    /\ redis_lock' = IF redis_lock[1].left = 1 THEN None
                     ELSE Some([redis_lock[1] EXCEPT !.left = @ - 1])
    /\ UNCHANGED <<proc, unlock_task, schema, max_size, rvars, avars, qvars, bvars, last>>

\* impl Drop for LockGuard: spawn the unlock task
drop_guard(t) == "spawned"

\* the spawned task: lock_manager.unlock(&lock) deletes the key only while it
\* still carries this guard's value; the request itself may fail
unlock_run(p) ==
    /\ unlock_task[p] = "spawned"
    /\ unlock_task' = [unlock_task EXCEPT ![p] = "done"]
    /\ \E delivered \in BOOLEAN :
        redis_lock' = IF delivered /\ redis_lock # None /\ redis_lock[1].val = p
                      THEN None ELSE redis_lock
    /\ UNCHANGED <<proc, schema, max_size, rvars, avars, qvars, bvars, last>>

\* the caller of RedisService::lock lets the guard go out of scope
guard_drop(p) ==
    /\ proc[p].pc = "holding"
    /\ proc' = [proc EXCEPT ![p].pc = "done", ![p].guard = FALSE]
    /\ unlock_task' = [unlock_task EXCEPT ![p] = drop_guard(@)]
    /\ UNCHANGED <<redis_lock, schema, max_size, rvars, avars, qvars, bvars, last>>

\* DatabaseService::new: pool.manager().create().await?
new_create_conn(p) ==
    /\ proc[p].pc = "create"
    /\ \E created \in BOOLEAN :
        IF created
        THEN /\ proc' = [proc EXCEPT ![p].pc = "migrating"]
             /\ UNCHANGED unlock_task
        ELSE /\ proc' = [proc EXCEPT ![p].pc = "failed", ![p].guard = FALSE,
                                     ![p].ret = "ConnectionError"]
             /\ unlock_task' = [unlock_task EXCEPT ![p] = drop_guard(@)]
    /\ UNCHANGED <<redis_lock, schema, max_size, rvars, avars, qvars, bvars, last>>

\* what spawn_blocking(move || run_migrations(conn)).await answers
MigrationOutcomes == {"Ok", "JoinError", "MigrationError"}

\* DatabaseService::new: the blocking run_migrations call returns, however
\* long it took, and the block holding the guard is left.  On the in-memory
\* engine the migrations went to the database of `conn`, which is dropped.
new_run_migrations(p) ==
    /\ proc[p].pc = "migrating"
    /\ \E outcome \in MigrationOutcomes :
        /\ proc' = [proc EXCEPT ![p].guard = FALSE,
                        ![p].pc = IF outcome = "Ok" THEN "constructed" ELSE "failed",
                        ![p].ret = outcome]
        /\ schema' = IF outcome = "Ok" /\ proc[p].url = "postgres://"
                     THEN TRUE ELSE schema
    /\ unlock_task' = [unlock_task EXCEPT ![p] = drop_guard(@)]
    /\ UNCHANGED <<redis_lock, max_size, rvars, avars, qvars, bvars, last>>

\* DatabaseService::new: Self { pool }, the cfg(test) block, Ok(db)
new_finish(p) ==
    /\ proc[p].pc = "constructed"
    /\ IF proc[p].test
       THEN \E migrated \in BOOLEAN :
            proc' = [proc EXCEPT ![p] =
                IF migrated THEN [@ EXCEPT !.pc = "ready", !.pool_schema = TRUE]
                ELSE [@ EXCEPT !.pc = "failed", !.ret = "MigrationError"]]
       ELSE proc' = [proc EXCEPT ![p].pc = "ready"]
    /\ UNCHANGED <<redis_lock, unlock_task, schema, max_size, rvars, avars, qvars, bvars, last>>

\* are all migrations applied in the database a pooled connection of p opens
conn_schema(p) ==
    IF proc[p].url = "sqlite://:memory:" THEN proc[p].pool_schema ELSE schema

\* DatabaseService::get on the constructed service
get(p) ==
    /\ proc[p].pc = "ready"
    /\ proc[p].got = None
    /\ proc' = [proc EXCEPT ![p].got = Some(conn_schema(p))]
    /\ UNCHANGED <<redis_lock, unlock_task, schema, max_size, rvars, avars, qvars, bvars, last>>

\* main: BackendServices::new(..).await? returns the error, main returns and
\* the runtime is shut down; a spawned task that has not run is dropped
proc_exit(p) ==
    /\ proc[p].pc = "failed"
    /\ proc' = [proc EXCEPT ![p].pc = "exited"]
    /\ unlock_task' = [unlock_task EXCEPT ![p] =
                            IF @ = "spawned" THEN "dropped" ELSE @]
    /\ UNCHANGED <<redis_lock, schema, max_size, rvars, avars, qvars, bvars, last>>

\* --------------------------------------------------------------- job runner
\* a worker task blocked in self.notifier.notified().await
IdleRunner == [pc |-> "idle", job |-> 0, failed |-> "none"]

\* config.runners of the process whose worker tasks are Workers: main spawns
\* run(i) for i in 0..=runners
runners == NumWorkers - 1

IdleWatcher == [pc |-> "count", seen |-> 0, count |-> 0, issued |-> 0, failed |-> FALSE]

RInit ==
    /\ runner = [w \in Workers |-> IdleRunner]
    /\ notifier = FALSE
    /\ watcher = IdleWatcher

\* Notify::notify_one as JobRunner::notify_one calls it: with a permit stored
\* already the call changes nothing; otherwise one worker waiting in
\* notified().await is woken, and with no worker waiting the permit is stored
notifier_notify_one ==
    IF notifier
    THEN UNCHANGED <<runner, notifier>>
    ELSE IF \E w \in Workers : runner[w].pc = "idle"
    THEN /\ \E w \in Workers :
            /\ runner[w].pc = "idle"
            /\ runner' = [runner EXCEPT ![w] = [IdleRunner EXCEPT !.pc = "fetch"]]
         /\ UNCHANGED notifier
    ELSE /\ notifier' = TRUE
         /\ UNCHANGED runner

\* JobRunner::notify_one called from outside the runner (bus message
\* ResumeJobRunner)
notify_one ==
    /\ notifier_notify_one
    /\ last' = None
    /\ UNCHANGED <<avars, mvars, qvars, bvars>>

\* run: notified().await returns, taking the permit; a drain pass starts
run_notified(w) ==
    /\ runner[w].pc = "idle"
    /\ notifier
    /\ notifier' = FALSE
    /\ runner' = [runner EXCEPT ![w] = [IdleRunner EXCEPT !.pc = "fetch"]]
    /\ last' = None
    /\ UNCHANGED <<avars, mvars, qvars, bvars>>

\* run: fetch_and_start is called; its self.db.get().await? may fail, which
\* ends the pass
run_fetch_begin(w) ==
    /\ runner[w].pc = "fetch"
    /\ worker[w].pc = "idle"
    /\ ConnsInUse < max_size
    /\ \E connected \in BOOLEAN :
        IF connected
        THEN /\ worker' = [worker EXCEPT ![w] = [IdleWorker EXCEPT !.pc = "select"]]
             /\ runner' = [runner EXCEPT ![w].pc = "fetching"]
        ELSE /\ runner' = [runner EXCEPT ![w].pc = "idle", ![w].failed = "claim"]
             /\ UNCHANGED worker
    /\ last' = None
    /\ UNCHANGED <<notifier, avars, mvars, job_queue, clock, enqLog, returned, bvars>>

\* run: fetch_and_start has returned: a job, None (the pass is over) or an error
run_fetched(w) ==
    /\ runner[w].pc = "fetching"
    /\ worker[w].pc = "idle"
    /\ runner' = [runner EXCEPT ![w] =
            IF worker[w].ret.kind = "job"
            THEN [@ EXCEPT !.pc = "get_db", !.job = worker[w].ret.id]
            ELSE IF worker[w].ret.kind = "empty"
            THEN [@ EXCEPT !.pc = "idle"]
            ELSE [@ EXCEPT !.pc = "idle", !.failed = "claim"]]
    /\ last' = None
    /\ UNCHANGED <<notifier, avars, mvars, qvars, bvars>>

\* run: let mut db = self.backend.database.get().await?
run_get_db(w) ==
    /\ runner[w].pc = "get_db"
    /\ \E connected \in BOOLEAN :
        runner' = [runner EXCEPT ![w] =
            IF connected THEN [@ EXCEPT !.pc = "exec"]
            ELSE [@ EXCEPT !.pc = "idle", !.failed = "db"]]
    /\ last' = None
    /\ UNCHANGED <<notifier, avars, mvars, qvars, bvars>>

\* what exec does with a command: the arm of SyncBranch is todo!(), which
\* panics and unwinds the worker task
exec(job) == "panic"

\* run: self.exec(job.command).await?; the finish_job call after it is only
\* reached when exec returns Ok
run_exec(w) ==
    /\ runner[w].pc = "exec"
    /\ runner' = [runner EXCEPT ![w] =
            IF exec(worker[w].ret.command) = "panic"
            THEN [@ EXCEPT !.pc = "panicked", !.failed = "exec"]
            ELSE IF exec(worker[w].ret.command) = "Err"
            THEN [@ EXCEPT !.pc = "idle", !.failed = "exec"]
            ELSE [@ EXCEPT !.pc = "finish"]]
    /\ last' = None
    /\ UNCHANGED <<notifier, avars, mvars, qvars, bvars>>

\* JobQueueService::count_pending(max): the number of pending unclaimed jobs,
\* up to max
count_pending(max) ==
    IF Cardinality(Pending(job_queue)) < max THEN Cardinality(Pending(job_queue)) ELSE max

\* run_watcher: a sweep starts with count_pending(runners).await?; when the
\* call fails the sweep is over and the error is logged
run_watcher_count ==
    /\ watcher.pc = "count"
    /\ \E ok \in BOOLEAN :
        watcher' = IF ok
                   THEN [pc |-> "notify", seen |-> Cardinality(Pending(job_queue)),
                         count |-> count_pending(runners), issued |-> 0,
                         failed |-> FALSE]
                   ELSE [pc |-> "sleep", seen |-> Cardinality(Pending(job_queue)),
                         count |-> 0, issued |-> 0, failed |-> TRUE]
    /\ last' = None
    /\ UNCHANGED <<busvars, rvars, mvars, qvars, bvars>>

\* variant: the loop runs for _ in 0..=count
run_watcher_notify_inclusive ==
    /\ watcher.pc = "notify"
    /\ watcher.issued <= watcher.count
    /\ notifier_notify_one
    /\ watcher' = [watcher EXCEPT !.issued = @ + 1]
    /\ last' = None
    /\ UNCHANGED <<busvars, mvars, qvars, bvars>>

\* run_watcher: one turn of for _ in 0..count { self.notify_one() }
run_watcher_notify ==
    /\ watcher.pc = "notify"
    /\ watcher.issued < watcher.count
    /\ notifier_notify_one
    /\ watcher' = [watcher EXCEPT !.issued = @ + 1]
    /\ last' = None
    /\ UNCHANGED <<busvars, mvars, qvars, bvars>>

\* run_watcher: the for loop is over; tokio::time::sleep(3 min) starts
run_watcher_sleep ==
    /\ watcher.pc = "notify"
    /\ watcher.issued = watcher.count
    /\ watcher' = [watcher EXCEPT !.pc = "sleep"]
    /\ last' = None
    /\ UNCHANGED <<busvars, rvars, mvars, qvars, bvars>>

\* run_watcher: the sleep is over, the loop starts the next sweep
run_watcher_loop ==
    /\ watcher.pc = "sleep"
    /\ watcher' = IdleWatcher
    /\ last' = None
    /\ UNCHANGED <<busvars, rvars, mvars, qvars, bvars>>

\* ------------------------------------------------- Axis start-up and the bus
Axes == 1..NumAxis

\* values of runners in axis.toml
ConfigRunners == 0..MaxRunners

BACKEND_BUS_CHANNEL == "bus:backend"
BACKEND_BUS_C2A_CHANNEL == "bus:c2a"

\* channels a Redis client can publish on
Channels == {BACKEND_BUS_CHANNEL, BACKEND_BUS_C2A_CHANNEL, "bus:other"}

\* the channels handle_bus_message of Axis subscribes to
AxisSubscriptions == {BACKEND_BUS_CHANNEL, BACKEND_BUS_C2A_CHANNEL}

ResumeJobRunner == "ResumeJobRunner"
C2ABusMessages == {ResumeJobRunner}

\* serde_json::to_string of a C2ABusMessage: a unit variant is a JSON string
to_string(message) == "\"" \o message \o "\""

\* a payload that is not UTF-8, and the payloads a client can publish
NotUtf8 == "<ff>"
Payloads == {to_string(ResumeJobRunner), "{}", NotUtf8}

\* msg.get_payload::<String>()
get_payload(payload) ==
    IF payload = NotUtf8 THEN [ok |-> FALSE, value |-> ""]
    ELSE [ok |-> TRUE, value |-> payload]

\* serde_json::from_str::<C2ABusMessage>
from_str_c2a(text) ==
    IF \E m \in C2ABusMessages : text = to_string(m)
    THEN [ok |-> TRUE, message |-> CHOOSE m \in C2ABusMessages : text = to_string(m)]
    ELSE [ok |-> FALSE, message |-> ""]

\* serde_json::from_str::<BackendBusMessage>: the enum has no variant
from_str_backend(text) == [ok |-> FALSE, message |-> ""]

\* variant: the service cell is populated after the tasks are spawned
MainOrder_spawn_first ==
    <<"config", "backend", "runner", "spawn_bus", "spawn_workers",
      "spawn_watcher", "set_cell", "serving">>

\* the statements of main, in order
MainOrder ==
    <<"config", "backend", "runner", "set_cell", "spawn_bus", "spawn_workers",
      "spawn_watcher", "serving">>

\* the statement of main that follows the statement pc
after(pc) ==
    MainOrder[(CHOOSE k \in 1..Len(MainOrder) : MainOrder[k] = pc) + 1]

NewAxis ==
    [pc |-> "config", runners |-> 0, bus |-> FALSE, cell |-> 0, i |-> 0,
     workers |-> {}, watcher |-> None, subscriber |-> "none",
     wakes |-> 0, sends |-> 0, ret |-> "none", failures |-> {}]

AInit ==
    /\ axis = [a \in Axes |-> NewAxis]
    /\ inbox = [a \in Axes |-> <<>>]
    /\ bus_log = <<>>
    /\ handled = [m \in 1..MaxMsgs |-> {}]

\* main: the configuration file is read and parsed
main_load_config(a) ==
    /\ axis[a].pc = "config"
    /\ \/ \E r \in ConfigRunners :
            axis' = [axis EXCEPT ![a].pc = after("config"), ![a].runners = r]
       \/ axis' = [axis EXCEPT ![a].pc = "exited"]
    /\ last' = None
    /\ UNCHANGED <<inbox, bus_log, handled, watcher, rvars, mvars, qvars, bvars>>

\* main: BackendServices::new(config, AxisBusFactory(services_ref.clone())):
\* the bus service is constructed around the empty cell
main_backend_new(a) ==
    /\ axis[a].pc = "backend"
    /\ \/ axis' = [axis EXCEPT ![a].pc = after("backend"), ![a].bus = TRUE]
       \/ axis' = [axis EXCEPT ![a].pc = "exited"]
    /\ last' = None
    /\ UNCHANGED <<inbox, bus_log, handled, watcher, rvars, mvars, qvars, bvars>>

\* main: JobRunner::new and the AxisServices value
main_runner_new(a) ==
    /\ axis[a].pc = "runner"
    /\ axis' = [axis EXCEPT ![a].pc = after("runner")]
    /\ last' = None
    /\ UNCHANGED <<inbox, bus_log, handled, watcher, rvars, mvars, qvars, bvars>>

\* main: services_ref.set(services.clone()).unwrap()
main_set_cell(a) ==
    /\ axis[a].pc = "set_cell"
    /\ axis' = [axis EXCEPT ![a].pc = after("set_cell"), ![a].cell = @ + 1]
    /\ last' = None
    /\ UNCHANGED <<inbox, bus_log, handled, watcher, rvars, mvars, qvars, bvars>>

\* main: tokio::spawn(bus::handle_bus_message(services.clone()))
main_spawn_bus(a) ==
    /\ axis[a].pc = "spawn_bus"
    /\ axis' = [axis EXCEPT ![a].pc = after("spawn_bus"),
                            ![a].subscriber = "connecting", ![a].i = 0]
    /\ last' = None
    /\ UNCHANGED <<inbox, bus_log, handled, watcher, rvars, mvars, qvars, bvars>>

\* main: for i in 0..=services.config.runners { tokio::spawn(run(i)) }
main_spawn_worker(a) ==
    /\ axis[a].pc = "spawn_workers"
    /\ axis' = IF axis[a].i <= axis[a].runners
               THEN [axis EXCEPT ![a].workers = @ \cup {axis[a].i}, ![a].i = @ + 1]
               ELSE [axis EXCEPT ![a].pc = after("spawn_workers")]
    /\ last' = None
    /\ UNCHANGED <<inbox, bus_log, handled, watcher, rvars, mvars, qvars, bvars>>

\* main: tokio::spawn(run_watcher(services.config.runners))
main_spawn_watcher(a) ==
    /\ axis[a].pc = "spawn_watcher"
    /\ axis' = [axis EXCEPT ![a].pc = after("spawn_watcher"),
                            ![a].watcher = Some(axis[a].runners)]
    /\ last' = None
    /\ UNCHANGED <<inbox, bus_log, handled, watcher, rvars, mvars, qvars, bvars>>

\* process_c2a_message: ResumeJobRunner => services.runner.notify_one()
process_c2a_message(ax, message) ==
    IF message = ResumeJobRunner THEN [ax EXCEPT !.wakes = @ + 1] ELSE ax

\* Redis PUBLISH: the message is pushed to every connection subscribed to
\* the channel at that moment
publish(channel, payload, from) ==
    /\ bus_log' = Append(bus_log, [channel |-> channel, payload |-> payload,
                                   from |-> from])
    /\ inbox' = [a \in Axes |->
            IF axis[a].subscriber = "subscribed" /\ channel \in AxisSubscriptions
            THEN Append(inbox[a], Len(bus_log) + 1)
            ELSE inbox[a]]

\* variant: send_c2a of Axis publishes on bus:c2a as that of Crayon does
axis_send_c2a_published(a, message) ==
    /\ axis[a].bus
    /\ axis[a].sends < MaxSends
    /\ Len(bus_log) < MaxMsgs
    /\ publish(BACKEND_BUS_C2A_CHANNEL, to_string(message), "axis")
    /\ axis' = [axis EXCEPT ![a].sends = @ + 1, ![a].ret = "Ok"]
    /\ last' = Some([op |-> "send_c2a", a |-> a, populated |-> axis[a].cell > 0])
    /\ UNCHANGED <<handled, watcher, rvars, mvars, qvars, bvars>>

\* AxisBusService::send_c2a
axis_send_c2a(a, message) ==
    /\ axis[a].bus
    /\ axis[a].sends < MaxSends
    /\ axis' = [axis EXCEPT ![a] =
            [(IF axis[a].cell > 0 THEN process_c2a_message(axis[a], message)
              ELSE axis[a])
             EXCEPT !.sends = @ + 1, !.ret = "Ok"]]
    /\ last' = Some([op |-> "send_c2a", a |-> a, populated |-> axis[a].cell > 0])
    /\ UNCHANGED <<inbox, bus_log, handled, watcher, rvars, mvars, qvars, bvars>>

\* CrayonBusService::send_c2a: the message is serialized and published on
\* bus:c2a; without a Redis connection nothing is published
crayon_send_c2a(message) ==
    /\ Len(bus_log) < MaxMsgs
    /\ \/ publish(BACKEND_BUS_C2A_CHANNEL, to_string(message), "crayon")
       \/ UNCHANGED <<inbox, bus_log>>
    /\ last' = None
    /\ UNCHANGED <<axis, handled, watcher, rvars, mvars, qvars, bvars>>

\* any other client of the Redis server publishing on a channel
foreign_publish(channel, payload) ==
    /\ Len(bus_log) < MaxMsgs
    /\ publish(channel, payload, "other")
    /\ last' = None
    /\ UNCHANGED <<axis, handled, watcher, rvars, mvars, qvars, bvars>>

\* handle_bus_message: make_client, get_async_pubsub and the two subscribe
\* calls, each unwrapped
handle_bus_message_subscribe(a) ==
    /\ axis[a].subscriber = "connecting"
    /\ \E ok \in BOOLEAN :
        axis' = [axis EXCEPT ![a].subscriber =
                    IF ok THEN "subscribed" ELSE "panicked"]
    /\ last' = None
    /\ UNCHANGED <<inbox, bus_log, handled, watcher, rvars, mvars, qvars, bvars>>

\* what one turn of the while loop does with a message: the outcome, and
\* whether the runner is sent a wake signal
handle_outcome(channel, payload) ==
    IF ~get_payload(payload).ok THEN "undecodable"
    ELSE IF channel = BACKEND_BUS_CHANNEL
    THEN (IF from_str_backend(get_payload(payload).value).ok
          THEN "handled" ELSE "handler_failed")
    ELSE IF channel = BACKEND_BUS_C2A_CHANNEL
    THEN (IF from_str_c2a(get_payload(payload).value).ok
          THEN "handled" ELSE "handler_failed")
    ELSE "unknown_channel"

\* variant: the loop is left when a message could not be handled
loop_after_break_on_error(outcome) ==
    IF outcome = "handled" THEN "subscribed" ELSE "stopped"

\* the state of the while loop after a turn with that outcome: continue, or
\* the end of the match, both lead to the next on_message().next().await
loop_after(outcome) == "subscribed"

\* handle_bus_message: one turn of while let Some(msg) = on_message().next()
handle_bus_message(a) ==
    /\ axis[a].subscriber = "subscribed"
    /\ inbox[a] # <<>>
    /\ LET m == Head(inbox[a])
           msg == bus_log[m]
           outcome == handle_outcome(msg.channel, msg.payload)
           wake == outcome = "handled" /\ msg.channel = BACKEND_BUS_C2A_CHANNEL
           ax == IF wake
                 THEN process_c2a_message(axis[a],
                        from_str_c2a(get_payload(msg.payload).value).message)
                 ELSE axis[a]
       IN
        /\ axis' = [axis EXCEPT ![a] =
                [ax EXCEPT !.subscriber = loop_after(outcome),
                           !.failures = IF outcome = "handled" THEN @
                                        ELSE @ \cup {outcome}]]
        /\ handled' = IF wake THEN [handled EXCEPT ![m] = @ \cup {a}] ELSE handled
        /\ inbox' = [inbox EXCEPT ![a] = Tail(@)]
        /\ last' = Some([op |-> "handle_bus_message", a |-> a, m |-> m,
                         outcome |-> outcome, wake |-> wake])
    /\ UNCHANGED <<bus_log, watcher, rvars, mvars, qvars, bvars>>

\* handle_bus_message: the stream of the connection ends (Redis went away),
\* on_message().next() yields None and the task returns
handle_bus_message_closed(a) ==
    /\ axis[a].subscriber = "subscribed"
    /\ inbox[a] = <<>>
    /\ axis' = [axis EXCEPT ![a].subscriber = "closed"]
    /\ last' = None
    /\ UNCHANGED <<inbox, bus_log, handled, watcher, rvars, mvars, qvars, bvars>>

\* ----------------------------------------------------------- specifications
Init == QInit /\ BInit /\ MInit /\ RInit /\ AInit

QueueNext ==
    \/ \E job \in JobCommands : enqueue(job)
    \/ \E job \in JobCommands, priority \in Priorities : enqueue_with_priority(job, priority)
    \/ \E w \in Workers : fetch_and_start_begin(w)
    \/ \E w \in Workers : fetch_and_start_select(w)
    \/ \E w \in Workers : fetch_and_start_update(w)
    \/ \E id \in JobIds : finish_job(id)

BranchNext ==
    \/ \E c \in Callers, name \in Names, info \in Infos : track_begin(c, name, info)
    \/ \E c \in Callers : track_resolve(c)
    \/ \E c \in Callers : track_insert_branch(c)
    \/ \E c \in Callers : track_enqueue(c)
    \/ \E c \in Callers : transaction_commit(c)
    \/ \E c \in Callers : transaction_rollback(c)
    \/ \E c \in Callers, id \in BranchIds : untrack_begin(c, id)
    \/ \E c \in Callers : untrack_delete(c)
    \/ \E c \in Callers, id \in BranchIds, info \in Infos : update_config_begin(c, id, info)
    \/ \E c \in Callers : update_config_resolve(c)
    \/ \E c \in Callers : update_config_execute(c)

Next == QueueNext \/ BranchNext

\* every task of every process
Spec == Init /\ [][Next]_vars

\* the job queue alone, with concurrent pollers
SpecQueue == Init /\ [][QueueNext]_vars

\* no BranchService call is in progress
CallersIdle == \A c \in Callers : caller[c].pc = "idle"

\* the branch service alone, one call at a time
SerialBranchNext ==
    \/ CallersIdle /\ \E c \in Callers, name \in Names, info \in Infos : track_begin(c, name, info)
    \/ \E c \in Callers : track_resolve(c)
    \/ \E c \in Callers : track_insert_branch(c)
    \/ \E c \in Callers : track_enqueue(c)
    \/ \E c \in Callers : transaction_commit(c)
    \/ \E c \in Callers : transaction_rollback(c)
    \/ CallersIdle /\ \E c \in Callers, id \in BranchIds : untrack_begin(c, id)
    \/ \E c \in Callers : untrack_delete(c)
    \/ CallersIdle /\ \E c \in Callers, id \in BranchIds, info \in Infos :
            update_config_begin(c, id, info)
    \/ \E c \in Callers : update_config_resolve(c)
    \/ \E c \in Callers : update_config_execute(c)

SpecBranch == Init /\ [][SerialBranchNext]_vars

\* the job queue alone, one call at a time: an enqueue, a finish_job or a new
\* fetch_and_start starts only when no fetch_and_start is in progress
SerialQueueNext ==
    \/ AllIdle /\ \E job \in JobCommands : enqueue(job)
    \/ AllIdle /\ \E job \in JobCommands, priority \in Priorities :
            enqueue_with_priority(job, priority)
    \/ AllIdle /\ \E w \in Workers : fetch_and_start_begin(w)
    \/ \E w \in Workers : fetch_and_start_select(w)
    \/ \E w \in Workers : fetch_and_start_update(w)
    \/ AllIdle /\ \E id \in JobIds : finish_job(id)

SpecSeq == Init /\ [][SerialQueueNext]_vars

\* ------------------------------------------------------------- properties
FetchReturned == last # None /\ last[1].op = "fetch_and_start"
FinishReturned == last # None /\ last[1].op = "finish_job"
TrackReturned == last # None /\ last[1].op = "track"
UntrackReturned == last # None /\ last[1].op = "untrack"
UpdateReturned == last # None /\ last[1].op = "update_config"

\* position of the enqueue call that produced job `id`
EnqueueIndex(id) == CHOOSE i \in 1..Len(enqLog) : enqLog[i].id = id

\* the priority that call was given
Requested(id) == enqLog[EnqueueIndex(id)].priority

\* the call changed neither table
NoTableChange(call) ==
    call.addB = {} /\ call.delB = {} /\ call.addJ = {} /\ call.delJ = {}

\* C1: with concurrent pollers in any interleaving, no job id is returned by
\* two fetch_and_start calls, no two pollers hold the same job, and in a queue
\* that ever held a single row a poller whose conditional UPDATE lost the race
\* returns empty while the row was returned exactly once (to the other poller).
C1_ExactlyOneClaimer ==
    /\ \A id \in JobIds : returned[id] <= 1
    /\ \A w1, w2 \in Workers :
        (w1 # w2 /\ worker[w1].ret.kind = "job" /\ worker[w2].ret.kind = "job")
            => worker[w1].ret.id # worker[w2].ret.id
    /\ \A w \in Workers :
        (Len(enqLog) = 1 /\ worker[w].pc = "idle" /\ worker[w].lost # {})
            => /\ worker[w].ret.kind = "empty"
               /\ returned[enqLog[1].id] = 1

C1_Witness ==
    \E w1, w2 \in Workers :
        /\ Len(enqLog) = 1
        /\ worker[w1].pc = "idle" /\ worker[w1].lost = {enqLog[1].id}
        /\ worker[w1].ret.kind = "empty"
        /\ worker[w2].pc = "idle" /\ worker[w2].ret.kind = "job"
        /\ worker[w2].ret.id = enqLog[1].id

\* C2: when fetch_and_start (called one at a time) returns a job, no job left
\* unclaimed was enqueued with a strictly higher priority than the job
\* returned, for every priority enqueue_with_priority accepts.
C2_HigherPriorityFirst ==
    (FetchReturned /\ last[1].ret = "job")
        => \A r \in last[1].left : Requested(r.id) <= Requested(last[1].id)

\* C3: when fetch_and_start (called one at a time) returns a job, every job
\* left unclaimed that was enqueued with the same priority was enqueued later.
C3_FifoAmongEqualPriority ==
    (FetchReturned /\ last[1].ret = "job")
        => \A r \in last[1].left :
            Requested(r.id) = Requested(last[1].id)
                => EnqueueIndex(last[1].id) < EnqueueIndex(r.id)

C3_Witness ==
    /\ FetchReturned /\ last[1].ret = "job"
    /\ \E r \in last[1].left : Requested(r.id) = Requested(last[1].id)

\* draining as the stored rows order it: no job is returned twice; the job a
\* call returns precedes every job left unclaimed by stored priority
\* descending, then enqueue order; a call returns empty only when nothing is
\* unclaimed, and if no job was finished every job has then been returned once.
DrainOnceStoredOrder ==
    /\ \A id \in JobIds : returned[id] <= 1
    /\ (FetchReturned /\ last[1].ret = "job")
        => \A h \in last[1].claimed, r \in last[1].left :
            \/ h.priority > r.priority
            \/ h.priority = r.priority /\ EnqueueIndex(h.id) < EnqueueIndex(r.id)
    /\ (FetchReturned /\ last[1].ret = "empty")
        => /\ last[1].left = {}
           /\ \A r \in job_queue : r.started_at # None
           /\ Cardinality(job_queue) = Len(enqLog)
                => \A i \in 1..Len(enqLog) : returned[enqLog[i].id] = 1

\* C4: with calls made one at a time, no job is returned twice; the job a call
\* returns precedes every job left unclaimed by the priority it was enqueued
\* with, descending, then enqueue order; a call returns empty only when
\* nothing is unclaimed, and if no job was finished every enqueued job has
\* then been returned once.
C4_DrainOnceInOrder ==
    /\ \A id \in JobIds : returned[id] <= 1
    /\ (FetchReturned /\ last[1].ret = "job")
        => \A r \in last[1].left :
            \/ Requested(last[1].id) > Requested(r.id)
            \/ /\ Requested(last[1].id) = Requested(r.id)
               /\ EnqueueIndex(last[1].id) < EnqueueIndex(r.id)
    /\ (FetchReturned /\ last[1].ret = "empty")
        => /\ last[1].left = {}
           /\ \A r \in job_queue : r.started_at # None
           /\ Cardinality(job_queue) = Len(enqLog)
                => \A i \in 1..Len(enqLog) : returned[enqLog[i].id] = 1

\* the A(100), B(120), C(100) scenario drained to empty
DrainScenario ==
    /\ FetchReturned /\ last[1].ret = "empty"
    /\ Len(enqLog) = 3
    /\ Cardinality(job_queue) = 3
    /\ enqLog[1].priority = 100 /\ enqLog[2].priority = 120 /\ enqLog[3].priority = 100

\* C5: finish_job(id) returns JobAborted and changes no row when id names an
\* unclaimed job or no job (never enqueued or already finished); on a claimed
\* job it returns Ok and deletes exactly that row.
C5_FinishOnlyClaimed ==
    FinishReturned =>
        /\ last[1].addJ = {}
        /\ last[1].was \in {"unclaimed", "absent"}
            => last[1].ret = "JobAborted" /\ last[1].delJ = {}
        /\ last[1].was = "claimed"
            => /\ last[1].ret = "Ok"
               /\ Cardinality(last[1].delJ) = 1
               /\ \A r \in last[1].delJ : r.id = last[1].id /\ r.started_at # None

C5_Witness ==
    /\ FinishReturned
    /\ last[1].was = "unclaimed"
    /\ last[1].ret = "JobAborted"
    /\ \E r \in job_queue : r.id = last[1].id

\* a job_queue row that is the unclaimed SyncBranch job of branch row b
IsSyncJobOf(j, b) ==
    j.kind = "SyncBranch" /\ from_sql(j.data) = b.id /\ j.started_at = None

\* C6: when track returns, with success or with any failure, the call has
\* added a branch row if and only if it has added that row's SyncBranch job:
\* on Ok exactly one of each, on every failure (branch insert, job insert,
\* begin, commit, rollback, unknown base) neither; it removes nothing.
C6_TrackAtomic ==
    TrackReturned =>
        /\ last[1].delB = {} /\ last[1].delJ = {}
        /\ \A b \in last[1].addB : \E j \in last[1].addJ : IsSyncJobOf(j, b)
        /\ \A j \in last[1].addJ : \E b \in last[1].addB : IsSyncJobOf(j, b)
        /\ last[1].ret = "Ok"
            => Cardinality(last[1].addB) = 1 /\ Cardinality(last[1].addJ) = 1
        /\ last[1].ret # "Ok" => last[1].addB = {} /\ last[1].addJ = {}

C6_Witness ==
    /\ TrackReturned
    /\ last[1].ret = "EnqueueError"
    /\ last[1].new_id # 0
    /\ last[1].addB = {}

C8_TrackUnknownBase ==
    (TrackReturned /\ last[1].info.base # None /\ ~last[1].found) =>
        /\ NoTableChange(last[1])
        /\ last[1].ret # "Ok"
        /\ last[1].faults = {} => last[1].ret = "BranchNameNotFound"

C8_Witness ==
    /\ TrackReturned /\ last[1].info.base # None /\ ~last[1].found
    /\ last[1].ret = "BranchNameNotFound"
    /\ branch # {}

\* C9: untrack(id) for an id no branch row carries changes nothing and returns
\* BranchNotFound; for an id a row carries it returns Ok and removes exactly
\* that row (both whenever the database begins, commits and rolls back the
\* transaction without error); it never adds a row nor touches job_queue.
C9_Untrack ==
    UntrackReturned =>
        /\ last[1].addB = {} /\ last[1].addJ = {} /\ last[1].delJ = {}
        /\ ~last[1].found
            => /\ last[1].delB = {}
               /\ last[1].ret # "Ok"
               /\ last[1].faults = {} => last[1].ret = "BranchNotFound"
        /\ (last[1].found /\ last[1].faults = {})
            => /\ last[1].ret = "Ok"
               /\ Cardinality(last[1].delB) = 1
               /\ \A r \in last[1].delB : r.id = last[1].id
        /\ last[1].ret # "Ok" => last[1].delB = {}

C9_Witness ==
    /\ UntrackReturned /\ ~last[1].found
    /\ last[1].ret = "BranchNotFound"
    /\ branch # {}

\* C10: update_config(id, config) whose base (if any) resolves and whose
\* config supplies at least one field, for an id no branch row carries,
\* returns BranchNotFound and changes no branch row.
C10_UpdateUnknownId ==
    (/\ UpdateReturned
     /\ ~last[1].found
     /\ last[1].ret # "BranchNameNotFound"
     /\ last[1].info # NoInfo)
        => /\ last[1].ret = "BranchNotFound"
           /\ last[1].addB = {} /\ last[1].delB = {}

\* C11: a successful update_config(id, config) on the id of an existing row
\* replaces no branch row other than the row with that id, and what it puts in its place is that row with
\* the supplied fields set (base none for "", the resolved id for a name;
\* priority; tracking mode) and every other field, name and status included,
\* as before.
C11_UpdateConfigFrame ==
    (UpdateReturned /\ last[1].found /\ last[1].ret = "Ok")
        => /\ \A r \in last[1].delB : r.id = last[1].id
           /\ \A r \in last[1].addB :
                /\ r.id = last[1].id
                /\ \E o \in last[1].delB :
                    /\ o.id = r.id /\ o.name = r.name /\ o.status = r.status
                    /\ r.base = IF last[1].info.base = None THEN o.base
                                ELSE last[1].base[1]
                    /\ AsU16(r.priority) = IF last[1].info.priority = None
                                           THEN AsU16(o.priority)
                                           ELSE last[1].info.priority[1]
                    /\ r.tracking = IF last[1].info.tracking_mode = None
                                    THEN o.tracking
                                    ELSE tracking_i16(last[1].info.tracking_mode[1])

\* a call that ran BoxedSqlConn::transaction to its end
TransactionEnded ==
    /\ last # None
    /\ last[1].op \in {"track", "untrack"}
    /\ last[1].end[1] # "none"

\* C12: transaction(body) commits when body returned Ok, and the committed
\* call returns Ok with body's writes applied; when body returned an error it
\* rolls back, none of body's writes persist, and the call returns body's own
\* error when the rollback succeeds and also when the rollback fails with
\* BrokenTransactionManager.
C12_TransactionKeepsBodyError ==
    TransactionEnded =>
        /\ last[1].err = "none"
            => /\ last[1].end[1] = "commit"
               /\ last[1].end[2] = "Ok"
                    => /\ last[1].ret = "Ok"
                       /\ last[1].addB = last[1].tx.insB
                       /\ last[1].addJ = last[1].tx.insJ
                       /\ {r.id : r \in last[1].delB} = last[1].tx.delB
        /\ last[1].err # "none"
            => /\ last[1].end[1] = "rollback"
               /\ NoTableChange(last[1])
               /\ last[1].end[2] \in {"Ok", "BrokenTransactionManager"}
                    => last[1].ret = last[1].err

C12_Witness ==
    /\ TransactionEnded
    /\ last[1].err = "EnqueueError"
    /\ last[1].tx.insB # {}
    /\ last[1].end = <<"rollback", "BrokenTransactionManager">>
    /\ last[1].ret = "EnqueueError"
    /\ branch = {}

\* the processes constructing DatabaseService and calling RedisService::lock
MigrateNext ==
    \/ \E p \in Procs, d \in Deployments : new_begin(p, d)
    \/ \E p \in Procs, ttl \in Ttls : lock_begin(p, ttl)
    \/ \E p \in Procs : lock_attempt(p)
    \/ \E p \in Procs : lock_sleep(p)
    \/ ttl_tick
    \/ \E p \in Procs : unlock_run(p)
    \/ \E p \in Procs : guard_drop(p)
    \/ \E p \in Procs : new_create_conn(p)
    \/ \E p \in Procs : new_run_migrations(p)
    \/ \E p \in Procs : new_finish(p)
    \/ \E p \in Procs : get(p)
    \/ \E p \in Procs : proc_exit(p)

SpecMigrate == Init /\ [][MigrateNext]_vars

\* the runtime runs a spawned task for as long as it is alive, and a main
\* that has the error returns
SpecMigrateLive ==
    /\ Init /\ [][MigrateNext]_vars
    /\ \A p \in Procs : WF_vars(unlock_run(p))
    /\ \A p \in Procs : WF_vars(proc_exit(p))

\* processes inside spawn_blocking(run_migrations)
Migrating == {p \in Procs : proc[p].pc = "migrating"}

\* does the key in Redis carry the value of p's guard
HoldsLock(p) == redis_lock # None /\ redis_lock[1].val = p

\* C13: at any time at most one process is running run_migrations, and a
\* process that is running it holds lock:misc:sql-migration in Redis.
C13_MigrationMutex ==
    /\ Cardinality(Migrating) <= 1
    /\ \A p \in Migrating : HoldsLock(p)

\* DatabaseService::new of p has left the block that holds the guard
LeftMigrationBlock(p) ==
    /\ proc[p].op = "new"
    /\ \/ proc[p].pc \in {"constructed", "ready"}
       \/ proc[p].pc = "failed" /\ proc[p].ret # "TimeConversionError"

\* C14: on every path out of the migration block (migrations applied,
\* connection not created, blocking task failed, migration error) the guard
\* has been dropped, and the release it spawned is eventually issued.
C14_LockReleasedOnEveryPath ==
    \A p \in Procs :
        LeftMigrationBlock(p) ~> (unlock_task[p] = "done")

\* the guard is dropped on every path out of the block
GuardDroppedOnEveryPath ==
    \A p \in Procs :
        LeftMigrationBlock(p) => ~proc[p].guard /\ unlock_task[p] # "none"

\* once construction has succeeded the release is issued
ReleasedAfterSuccess ==
    \A p \in Procs :
        (proc[p].op = "new" /\ proc[p].pc = "ready") ~> (unlock_task[p] = "done")

\* C15: a connection a caller obtains from DatabaseService::get opens a
\* database in which all migrations are applied, and a service exists only
\* where run_migrations returned Ok.
C15_MigratedBeforeGet ==
    \A p \in Procs :
        /\ proc[p].pc = "ready" => proc[p].ret = "Ok"
        /\ proc[p].got # None => proc[p].got[1]

\* the same for the processes that use a shared database server
MigratedBeforeGetShared ==
    \A p \in Procs :
        (proc[p].url = "postgres://" /\ proc[p].got # None) => proc[p].got[1]

\* p takes a step of RedisService::lock from the top of its loop
LockAttemptStep(p) ==
    proc[p].pc = "lock" /\ proc[p].ttl # "negative" /\ proc'[p] # proc[p]

\* C16: an acquisition attempt ends in one of three ways: the lock was free
\* and is now held by the caller, and Ok is returned; or the attempt reported
\* TtlTooLarge and that error is returned at once, no sleep having been taken;
\* or the attempt failed otherwise, nothing is returned, the call sleeps and
\* then attempts again.
C16_LockRetryPolicy ==
    [][\A p \in Procs :
        /\ LockAttemptStep(p) =>
            \/ /\ proc[p].ttl # "too_large"
               /\ proc'[p].ret = "Ok" /\ proc'[p].guard
               /\ proc'[p].pc = after_lock_ok(proc[p].op)
               /\ redis_lock = None /\ HoldsLock(p)'
            \/ /\ proc[p].ttl = "too_large"
               /\ proc'[p].ret = "TtlTooLarge" /\ ~proc'[p].guard
               /\ proc'[p].pc = after_lock_err(proc[p].op)
               /\ proc[p].sleeps = 0
               /\ redis_lock' = redis_lock
            \/ /\ proc[p].ttl # "too_large"
               /\ proc'[p].ret = "none" /\ ~proc'[p].guard
               /\ proc'[p].pc = "sleep"
               /\ redis_lock' = redis_lock
        /\ (proc[p].pc = "sleep" /\ proc'[p] # proc[p])
            => proc'[p].pc = "lock" /\ proc'[p].ret = "none"]_vars

C16_Witness ==
    \E p, q \in Procs :
        /\ proc[p].op = "lock" /\ proc[p].ret = "TtlTooLarge" /\ proc[p].pc = "done"
        /\ proc[q].pc = "lock" /\ proc[q].sleeps >= 2 /\ proc[q].ret = "none"

\* C17: the sleep taken after the first failed attempt is 50 ms, each later
\* sleep is twice the one before for as long as doubling stays within the
\* limit, and no sleep is longer than 3 seconds.
C17_BackoffCapped ==
    \A p \in Procs :
        proc[p].pc = "sleep" =>
            /\ proc[p].sleeps = 1 => proc[p].delay = InitialDelay
            /\ \/ proc[p].delay = InitialDelay * 2 ^ (proc[p].sleeps - 1)
               \/ 2 * proc[p].delay > BackoffLimit
            /\ proc[p].delay <= BackoffLimit

\* the worker tasks of one process, the callers that enqueue and wake them
RunnerNext ==
    \/ \E job \in JobCommands : enqueue(job)
    \/ \E job \in JobCommands, priority \in Priorities : enqueue_with_priority(job, priority)
    \/ notify_one
    \/ \E w \in Workers : run_notified(w)
    \/ \E w \in Workers : run_fetch_begin(w)
    \/ \E w \in Workers : fetch_and_start_select(w)
    \/ \E w \in Workers : fetch_and_start_update(w)
    \/ \E w \in Workers : run_fetched(w)
    \/ \E w \in Workers : run_get_db(w)
    \/ \E w \in Workers : run_exec(w)

SpecRunner == Init /\ [][RunnerNext]_vars

\* the worker tasks and the watcher task of one process, and the callers that
\* enqueue without sending a wake signal
WatchNext ==
    \/ \E job \in JobCommands : enqueue(job)
    \/ run_watcher_count
    \/ run_watcher_notify
    \/ run_watcher_sleep
    \/ run_watcher_loop
    \/ \E w \in Workers : run_notified(w)
    \/ \E w \in Workers : run_fetch_begin(w)
    \/ \E w \in Workers : fetch_and_start_select(w)
    \/ \E w \in Workers : fetch_and_start_update(w)
    \/ \E w \in Workers : run_fetched(w)
    \/ \E w \in Workers : run_get_db(w)
    \/ \E w \in Workers : run_exec(w)

SpecWatch == Init /\ [][WatchNext]_vars

\* C18: a worker in whose drain pass a step has failed (the claim, the
\* database handle, the command) is Idle again, waiting for the next wake
\* signal, having claimed no further job in that pass.
C18_AbortPassOnFailure ==
    \A w \in Workers : runner[w].failed # "none" => runner[w].pc = "idle"

\* the same for the failures of the claim and of the database handle
AbortPassOnQueueFailure ==
    \A w \in Workers : runner[w].failed \in {"claim", "db"} => runner[w].pc = "idle"

\* C19: no worker task is ever stopped by a failure in a drain pass: each is
\* either Idle or inside a pass.
C19_WorkerNeverStops ==
    \A w \in Workers : runner[w].pc # "panicked"

\* C20: no job row a worker has claimed is deleted while its command has not
\* executed successfully: the job of a worker that is past the claim, or whose
\* pass failed after the claim, keeps its row with started_at set, every
\* enqueued job still has its row, and no job is returned twice.
C20_FailedJobStaysClaimed ==
    /\ \A id \in JobIds : returned[id] <= 1
    /\ \A i \in 1..Len(enqLog) : \E r \in job_queue : r.id = enqLog[i].id
    /\ \A w \in Workers :
        (runner[w].pc \in {"get_db", "exec", "panicked"} \/ runner[w].failed \in {"db", "exec"})
            => \E r \in job_queue : r.id = runner[w].job /\ r.started_at # None

C20_Witness ==
    /\ FetchReturned /\ last[1].ret = "empty"
    /\ \E w \in Workers :
        /\ w # last[1].w
        /\ runner[w].failed = "exec"
        /\ \E r \in job_queue : r.id = runner[w].job /\ r.started_at # None

\* the steps of the watcher task and those of one worker task
WatcherStep ==
    run_watcher_count \/ run_watcher_notify \/ run_watcher_sleep \/ run_watcher_loop

WorkerStep(w) ==
    \/ run_notified(w) \/ run_fetch_begin(w) \/ fetch_and_start_select(w)
    \/ fetch_and_start_update(w) \/ run_fetched(w) \/ run_get_db(w) \/ run_exec(w)

\* no database operation of a worker or of the watcher has failed
DatabaseSucceeds ==
    /\ ~watcher.failed
    /\ \A w \in Workers : runner[w].failed \notin {"claim", "db"}

\* the process of SpecWatch when every database operation succeeds
WatchLiveNext == WatchNext /\ DatabaseSucceeds'

\* the tokio runtime schedules every task that can run: the watcher and each
\* worker
SpecWatchLive ==
    /\ Init /\ [][WatchLiveNext]_vars
    /\ WF_vars(WatcherStep /\ DatabaseSucceeds')
    /\ \A w \in Workers : WF_vars(WorkerStep(w) /\ DatabaseSucceeds')

PendingJob(id) == \E r \in job_queue : r.id = id /\ r.started_at = None
ClaimedJob(id) == \E r \in job_queue : r.id = id /\ r.started_at # None

ClaimedWhileWorkersLive ==
    \A id \in JobIds :
        PendingJob(id) ~> (ClaimedJob(id) \/ \A w \in Workers : runner[w].pc = "panicked")

Min(a, b) == IF a < b THEN a ELSE b

\* C22: in a sweep of the watcher the number of wake signals issued is
\* min(pending unclaimed jobs counted, configured number of workers): none
\* when no job is pending, none when the count fails, and after a failed
\* count the watcher sleeps and starts the next sweep.
C22_SweepWakesMinPendingRunners ==
    /\ watcher.pc = "notify" => watcher.issued <= Min(watcher.seen, runners)
    /\ (watcher.pc = "sleep" /\ ~watcher.failed)
            => watcher.issued = Min(watcher.seen, runners)
    /\ watcher.failed => (watcher.pc = "sleep" /\ watcher.issued = 0)
    /\ watcher.pc = "sleep" => ENABLED run_watcher_loop

C22_Witness ==
    /\ watcher.pc = "sleep" /\ ~watcher.failed
    /\ watcher.seen > runners
    /\ watcher.issued = runners /\ runners > 0

\* a sweep that found no pending job, and a sweep whose count failed
SweepWithoutWake ==
    /\ watcher.pc = "sleep" /\ watcher.issued = 0
    /\ watcher.failed \/ watcher.seen = 0

\* the Axis instance whose start-up is followed statement by statement
Starting == {1}

\* one Axis instance starting up, its bus subscriber, a Crayon instance and
\* other Redis clients publishing
AxisNext ==
    \/ \E a \in Starting : main_load_config(a)
    \/ \E a \in Starting : main_backend_new(a)
    \/ \E a \in Starting : main_runner_new(a)
    \/ \E a \in Starting : main_set_cell(a)
    \/ \E a \in Starting : main_spawn_bus(a)
    \/ \E a \in Starting : main_spawn_worker(a)
    \/ \E a \in Starting : main_spawn_watcher(a)
    \/ \E a \in Starting, message \in C2ABusMessages : axis_send_c2a(a, message)
    \/ \E message \in C2ABusMessages : crayon_send_c2a(message)
    \/ \E channel \in Channels, payload \in Payloads : foreign_publish(channel, payload)
    \/ \E a \in Starting : handle_bus_message_subscribe(a)
    \/ \E a \in Starting : handle_bus_message(a)
    \/ \E a \in Starting : handle_bus_message_closed(a)

SpecAxis == Init /\ [][AxisNext]_vars

\* an Axis instance whose main has spawned its tasks and serves requests
Serving(r) ==
    [NewAxis EXCEPT !.pc = "serving", !.runners = r, !.bus = TRUE, !.cell = 1,
                    !.i = r + 1, !.workers = 0..r, !.watcher = Some(r),
                    !.subscriber = "connecting"]

\* every Axis instance has started with the same axis.toml
BusInit ==
    /\ QInit /\ BInit /\ MInit /\ RInit
    /\ axis = [a \in Axes |-> Serving(1)]
    /\ inbox = [a \in Axes |-> <<>>]
    /\ bus_log = <<>>
    /\ handled = [m \in 1..MaxMsgs |-> {}]

\* several Axis instances serving, their bus subscribers, a Crayon instance
\* and other Redis clients publishing
BusNext ==
    \/ \E a \in Axes, message \in C2ABusMessages : axis_send_c2a(a, message)
    \/ \E message \in C2ABusMessages : crayon_send_c2a(message)
    \/ \E channel \in Channels, payload \in Payloads : foreign_publish(channel, payload)
    \/ \E a \in Axes : handle_bus_message_subscribe(a)
    \/ \E a \in Axes : handle_bus_message(a)
    \/ \E a \in Axes : handle_bus_message_closed(a)

SpecBus == BusInit /\ [][BusNext]_vars

\* the state BusInit gives an instance is one its main reaches
ServingReached == \E a \in Starting : axis[a] = Serving(1)

\* C23: an Axis process configured with runners = N that has spawned its
\* tasks runs exactly N worker tasks, and N is the cap the watcher was given.
C23_WorkerTasksEqualRunners ==
    \A a \in Axes :
        axis[a].pc = "serving" =>
            /\ Cardinality(axis[a].workers) = axis[a].runners
            /\ axis[a].watcher = Some(axis[a].runners)

\* what main does: one worker task more than runners, and runners as the cap
WorkerTasksRunnersPlusOne ==
    \A a \in Axes :
        axis[a].pc = "serving" =>
            /\ axis[a].workers = 0..axis[a].runners
            /\ axis[a].watcher = Some(axis[a].runners)

\* a step of worker w in a pass that has claimed nothing, taken while no job
\* is pending
SpuriousWakeStep(w) ==
    /\ WorkerStep(w)
    /\ Pending(job_queue) = {}
    /\ \/ runner[w].pc \in {"idle", "fetch"}
       \/ runner[w].pc = "fetching" /\ worker[w].pc \in {"select", "update"}
       \/ runner[w].pc = "fetching" /\ worker[w].pc = "idle"
                                    /\ worker[w].ret.kind = "empty"

\* C24: wake signals sent at any time, needed or not, are harmless: a worker
\* woken while no job is pending makes the empty-queue check only (the
\* SELECT finds nothing and fetch_and_start returns None), leaves the job
\* table unchanged, executes nothing and is Idle again; whatever the wakes,
\* no job is returned to a worker twice and no two workers hold the same job.
C24_SpuriousWakeHarmless ==
    /\ [](\A id \in JobIds : returned[id] <= 1)
    /\ [](\A v, w \in Workers :
            (v # w /\ runner[v].job # 0) => runner[v].job # runner[w].job)
    /\ [][\A w \in Workers : SpuriousWakeStep(w) =>
            /\ job_queue' = job_queue
            /\ returned' = returned
            /\ runner'[w].pc \in {"idle", "fetch", "fetching"}
            /\ runner'[w].job = 0
            /\ worker[w].pc = "select" =>
                    (worker'[w].pc = "idle" /\ worker'[w].ret.kind = "empty")
            /\ (runner[w].pc = "fetching" /\ worker[w].pc = "idle") =>
                    (runner'[w].pc = "idle" /\ runner'[w].failed = "none")]_vars

\* a worker woken after the other worker has claimed the only job finds the
\* queue empty
C24_Witness ==
    /\ FetchReturned /\ last[1].ret = "empty"
    /\ runner[last[1].w].pc = "fetching"
    /\ Pending(job_queue) = {}
    /\ \E w \in Workers : w # last[1].w /\ runner[w].job # 0
    /\ notifier

\* the message at the head of the inbox of a is a ResumeJobRunner on bus:c2a
ValidResumeNext(a) ==
    /\ inbox[a] # <<>>
    /\ bus_log[Head(inbox[a])].channel = BACKEND_BUS_C2A_CHANNEL
    /\ bus_log[Head(inbox[a])].payload = to_string(ResumeJobRunner)

\* C25: no message ends the subscriber loop: after a turn of the loop, whether
\* the payload could not be decoded, the channel was not recognized or the
\* handler failed, the subscriber waits for the next message, and a valid
\* ResumeJobRunner on bus:c2a, whatever came before it, sends the job runner
\* of the instance exactly one wake signal.
C25_SubscriberSurvivesMessages ==
    [][\A a \in Axes : handle_bus_message(a) =>
            /\ axis'[a].subscriber = "subscribed"
            /\ axis'[a].wakes = axis[a].wakes + (IF ValidResumeNext(a) THEN 1 ELSE 0)
            /\ ValidResumeNext(a) => a \in handled'[Head(inbox[a])]]_vars

\* a subscriber that failed on an earlier message has just turned a valid
\* one into a wake signal
C25_Witness ==
    /\ last # None /\ last[1].op = "handle_bus_message" /\ last[1].wake
    /\ axis[last[1].a].failures # {}
    /\ axis[last[1].a].subscriber = "subscribed"

\* the ways a subscriber fails on a message: the channel arm for unknown
\* channels is never taken, Redis delivers the subscribed channels only
SubscriberFailures ==
    \A a \in Axes : axis[a].failures \subseteq {"undecodable", "handler_failed"}

\* C26: send_c2a(ResumeJobRunner) on an Axis instance is a local loop: nothing
\* is published to Redis, no subscriber receives anything, no other instance
\* changes, the job runner of the instance itself is sent exactly one wake
\* signal when the service cell is populated, and the call returns Ok.
C26_AxisSendC2aLocalLoop ==
    [][\A a \in Axes : axis_send_c2a(a, ResumeJobRunner) =>
            /\ bus_log' = bus_log
            /\ inbox' = inbox
            /\ handled' = handled
            /\ \A b \in Axes \ {a} : axis'[b] = axis[b]
            /\ axis'[a].wakes = axis[a].wakes + (IF axis[a].cell > 0 THEN 1 ELSE 0)
            /\ axis'[a].ret = "Ok"]_vars

\* a send_c2a on an instance with a populated cell has returned, while the
\* other instance is subscribed to the bus
C26_Witness ==
    /\ last # None /\ last[1].op = "send_c2a" /\ last[1].populated
    /\ axis[last[1].a].wakes >= 1
    /\ axis[last[1].a].ret = "Ok"
    /\ \E b \in Axes \ {last[1].a} : axis[b].subscriber = "subscribed"

\* the statements of main up to and including JobRunner::new
BeforeCell == {"config", "backend", "runner"}

\* C27: the service cell of an Axis process is populated exactly once, after
\* the backend services and the job runner are constructed and before the
\* bus subscriber, the workers and the watcher are spawned; a send_c2a made
\* while the cell is empty issues no wake signal, changes nothing else and
\* returns Ok.
C27_CellPopulatedOnceBeforeTasks ==
    /\ [](\A a \in Axes :
            /\ axis[a].cell <= 1
            /\ axis[a].cell = 1 => (axis[a].bus /\ axis[a].pc \notin BeforeCell)
            /\ (axis[a].subscriber # "none" \/ axis[a].workers # {}
                    \/ axis[a].watcher # None) => axis[a].cell = 1
            /\ axis[a].pc = "serving" => axis[a].cell = 1)
    /\ [][\A a \in Axes :
            (axis_send_c2a(a, ResumeJobRunner) /\ axis[a].cell = 0) =>
                /\ axis'[a] = [axis[a] EXCEPT !.sends = @ + 1, !.ret = "Ok"]
                /\ \A b \in Axes \ {a} : axis'[b] = axis[b]
                /\ UNCHANGED <<inbox, bus_log, handled, rvars>>]_vars

\* the process serves with its tasks spawned and its cell populated; of its
\* two send_c2a calls the one made before the cell was set was dropped
C27_Witness ==
    \E a \in Axes :
        /\ axis[a].pc = "serving" /\ axis[a].cell = 1
        /\ axis[a].subscriber = "subscribed" /\ axis[a].watcher # None
        /\ axis[a].sends = 2 /\ axis[a].wakes = 1 /\ axis[a].ret = "Ok"

\* C28: a ResumeJobRunner that send_c2a of a Crayon instance has published on
\* bus:c2a is handled (turned into a worker wake) by at most one of the Axis
\* instances subscribed.
C28_C2aHandledByAtMostOne ==
    \A m \in 1..Len(bus_log) :
        bus_log[m].from = "crayon" => Cardinality(handled[m]) <= 1

\* every instance that was subscribed when the message was published and
\* has taken it from its inbox has handled it
C2aHandledBySubscribers ==
    \A m \in 1..Len(bus_log), a \in Axes :
        (bus_log[m].from = "crayon" /\ a \in handled[m]) => axis[a].wakes >= 1

\* the configurations passed by the concurrent callers
ConcInfos ==
    {NoInfo, [base |-> Some("a"), priority |-> Some(32768), tracking_mode |-> None]}

\* the branch service called by several processes at once
ConcBranchNext ==
    \/ \E c \in Callers, name \in Names, info \in ConcInfos : track_begin(c, name, info)
    \/ \E c \in Callers, name \in Names, info \in ConcInfos : new_branch(c, name, info)
    \/ \E c \in Callers : track_resolve(c)
    \/ \E c \in Callers : track_insert_branch(c)
    \/ \E c \in Callers : track_enqueue(c)
    \/ \E c \in Callers : transaction_commit(c)
    \/ \E c \in Callers : transaction_rollback(c)
    \/ \E c \in Callers, id \in BranchIds : untrack_begin(c, id)
    \/ \E c \in Callers : untrack_delete(c)
    \/ \E c \in Callers, id \in BranchIds, info \in ConcInfos : update_config_begin(c, id, info)
    \/ \E c \in Callers : update_config_resolve(c)
    \/ \E c \in Callers : update_config_execute(c)

SpecBranchConc == Init /\ [][ConcBranchNext]_vars

\* C29: with track, untrack and update_config called by several processes in
\* any interleaving, two of them tracking the same name at once included, no
\* two branch rows have the same name, and a branch row keeps its name as
\* long as it exists.
C29_BranchNamesUniqueAndFixed ==
    /\ [](\A r, o \in branch : r.name = o.name => r.id = o.id)
    /\ [][\A r \in branch : \A o \in branch' : o.id = r.id => o.name = r.name]_vars

\* two processes are inside track with the same name: one has inserted its
\* row, the other is at its INSERT
C29_Witness ==
    \E c, d \in Callers :
        /\ c # d
        /\ caller[c].op = "track" /\ caller[d].op = "track"
        /\ caller[c].name = caller[d].name
        /\ caller[c].pc = "t_insert"
        /\ \E r \in caller[d].tx.insB : r.name = caller[c].name

\* the track that lost the race has failed on its INSERT
TrackLostRace ==
    /\ TrackReturned /\ last[1].err = "InsertError"
    /\ \E r \in branch : r.name = last[1].name

\* jobs of every command enqueued and fetched, one call at a time
CodecNext ==
    \/ AllIdle /\ \E job \in CodecCommands : enqueue(job)
    \/ AllIdle /\ \E w \in Workers : fetch_and_start_begin(w)
    \/ \E w \in Workers : fetch_and_start_select(w)
    \/ \E w \in Workers : fetch_and_start_update(w)

SpecCodec == Init /\ [][CodecNext]_vars

\* C30: deserialize applied to the (kind, payload) pair serialize produces
\* gives back the command, for every command; and the command of a job
\* fetch_and_start returns equals the command that was enqueued under that
\* id, the payload having gone through the data column in between.
C30_CommandRoundTrip ==
    /\ \A cmd \in CodecCommands :
            deserialize(serialize(cmd)[1], serialize(cmd)[2]) = [ok |-> TRUE, cmd |-> cmd]
    /\ \A cmd \in CodecCommands : from_sql(to_sql(serialize(cmd)[2])) = serialize(cmd)[2]
    /\ (FetchReturned /\ last[1].ret # "empty") =>
            /\ last[1].ret = "job"
            /\ worker[last[1].w].ret.command = enqLog[EnqueueIndex(last[1].id)].cmd

\* a job whose payload is negative and has several digits has been fetched
\* after jobs of other commands
C30_Witness ==
    /\ FetchReturned /\ last[1].ret = "job"
    /\ worker[last[1].w].ret.command = SyncBranch(0 - 2147483647)
    /\ \E r \in job_queue : r.id # last[1].id /\ from_sql(r.data) # 0 - 2147483647

\* the rows of the job table, by id
JobRow(jq, id) == CHOOSE r \in jq : r.id = id
HasJob(jq, id) == \E r \in jq : r.id = id

\* C31: a job row only moves forward, unclaimed -> claimed -> deleted:
\* started_at is null exactly while no fetch_and_start has returned the job,
\* only the UPDATE of fetch_and_start sets it, nothing resets it, only
\* finish_job removes a row and only a claimed one, and a removed id never
\* comes back.
C31_JobLifecycleForward ==
    /\ [](\A r \in job_queue : r.started_at = None <=> returned[r.id] = 0)
    /\ [][\A id \in JobIds :
            /\ (HasJob(job_queue, id) /\ HasJob(job_queue', id)) =>
                    /\ JobRow(job_queue, id).started_at # None
                            => JobRow(job_queue', id) = JobRow(job_queue, id)
                    /\ (JobRow(job_queue, id).started_at = None
                            /\ JobRow(job_queue', id).started_at # None)
                            => \E w \in Workers :
                                    /\ fetch_and_start_update(w)
                                    /\ worker[w].sel[1].id = id
            /\ (HasJob(job_queue, id) /\ ~HasJob(job_queue', id)) =>
                    /\ finish_job(id)
                    /\ JobRow(job_queue, id).started_at # None
            /\ (~HasJob(job_queue, id) /\ HasJob(job_queue', id)) =>
                    /\ id = clock + 1
                    /\ JobRow(job_queue', id).started_at = None]_vars

\* one job has gone through the three states while another is claimed and a
\* third is unclaimed
C31_Witness ==
    /\ FinishReturned /\ last[1].ret = "Ok" /\ last[1].was = "claimed"
    /\ \E r \in job_queue : r.started_at # None
    /\ \E r \in job_queue : r.started_at = None

\* C33: of two finish_job calls made at once for the same claimed job, one
\* returns Ok and deletes the row, the other returns JobAborted and deletes
\* nothing; no other row is touched, and no later call for that id returns
\* Ok.
C33_ConcurrentFinishOnce ==
    /\ [](FinishReturned =>
            /\ \A r \in last[1].delJ : r.id = last[1].id
            /\ last[1].addJ = {}
            /\ last[1].before # "none" =>
                    /\ last[1].ret = "JobAborted" /\ last[1].delJ = {}
                    /\ ~(last[1].before = "Ok" /\ last[1].ret = "Ok"))
    /\ [][\A id \in JobIds : finish_job(id) =>
            /\ last'[1].ret = "Ok" <=>
                    (HasJob(job_queue, id) /\ JobRow(job_queue, id).started_at # None)
            /\ last'[1].ret = "Ok" => Cardinality(last'[1].delJ) = 1
            /\ ~HasJob(job_queue', id)
                    \/ JobRow(job_queue', id).started_at = None]_vars

\* both calls have returned: the first Ok, the second JobAborted, and the
\* other rows are still there
C33_Witness ==
    /\ FinishReturned
    /\ last[1].before = "Ok" /\ last[1].ret = "JobAborted"
    /\ last[1].was = "absent"
    /\ job_queue # {}

\* r comes before every other pending row of jq, by the priorities the
\* callers supplied / by the priorities stored
BestRequested(jq, r) ==
    \A o \in Pending(jq) \ {r} :
        \/ Requested(r.id) > Requested(o.id)
        \/ Requested(r.id) = Requested(o.id) /\ r.id < o.id

BestStored(jq, r) == \A o \in Pending(jq) \ {r} : order_before(r, o)

\* a SELECT of worker w that follows an UPDATE of w that affected no row
Reselect(w) == fetch_and_start_select(w) /\ worker[w].lost # {}

\* what a re-selection does, Best being the order of the candidates
ReselectStep(Best(_, _)) ==
    \A w \in Workers : Reselect(w) =>
        IF Pending(job_queue) = {}
        THEN worker'[w].pc = "idle" /\ worker'[w].ret.kind = "empty"
        ELSE /\ worker'[w].pc = "update"
             /\ worker'[w].sel[1].id \notin worker[w].lost
             /\ \E r \in Pending(job_queue) :
                    r.id = worker'[w].sel[1].id /\ Best(job_queue, r)

\* the row a fetch_and_start returns is the row it selected last
ReturnsSelected ==
    \A w \in Workers :
        (fetch_and_start_update(w) /\ worker'[w].pc = "idle") =>
            /\ worker'[w].ret.kind = "job"
            /\ worker'[w].ret.id = worker[w].sel[1].id
            /\ worker'[w].ret.id \notin worker[w].lost

\* C32: a fetch_and_start whose UPDATE affected no row, another poller having
\* claimed the selected row first, selects again from scratch: it does not
\* return the row it lost, does not return empty while an unclaimed row
\* exists at the re-selection, and returns the row that is then first by
\* (priority supplied descending, id ascending), a row enqueued after its
\* first selection included.
C32_ContendedRetry ==
    [][ReselectStep(BestRequested)]_vars /\ [][ReturnsSelected]_vars

\* the same with the rows ordered by the priority column as stored
ContendedRetryStoredOrder ==
    [][ReselectStep(BestStored)]_vars /\ [][ReturnsSelected]_vars

\* a poller that lost a row has been returned a row enqueued after its first
\* selection
RetryReturnsLaterRow ==
    /\ FetchReturned /\ last[1].ret = "job"
    /\ worker[last[1].w].lost # {}
    /\ \A l \in worker[last[1].w].lost : l < last[1].id

\* no worker task is waiting in notified().await
NoWorkerWaiting == \A w \in Workers : runner[w].pc # "idle"

\* C34: a wake signal issued by notify_one while no worker is waiting is
\* dropped: no permit is kept for it, so a worker that begins to wait
\* afterwards stays Idle until a new wake signal is issued, that is, a worker
\* leaves Idle only in the step of a notify_one call.
C34_WakeWithoutWaiterDropped ==
    /\ [][(notify_one /\ NoWorkerWaiting) => ~notifier']_vars
    /\ [][\A w \in Workers :
            (runner[w].pc = "idle" /\ runner'[w].pc # "idle") => notify_one]_vars

\* a worker has come back to wait while the permit of a wake signal issued to
\* no waiter is stored: its notified().await returns without a new signal
WakeRemembered ==
    \E w \in Workers :
        /\ runner[w].pc = "idle"
        /\ runner[w].failed # "none"
        /\ notifier

\* the workers that execute or have executed the command of job id: exec
\* unwinds the task, which keeps the job it held
Executors(id) ==
    {w \in Workers : runner[w].job = id /\ runner[w].pc \in {"exec", "panicked"}}

\* C35: over all workers, the command of each enqueued job is executed at most
\* once: exec is called only by the worker whose fetch_and_start returned the
\* job, with the command of that job; no job is returned to two workers, and
\* a job whose pass failed is not returned again.
C35_ExecutedAtMostOnce ==
    /\ [](\A id \in JobIds :
            /\ Cardinality(Executors(id)) <= 1
            /\ Cardinality({w \in Workers : runner[w].job = id}) <= returned[id]
            /\ returned[id] <= 1)
    /\ [][\A w \in Workers : run_exec(w) =>
            /\ worker[w].ret.kind = "job"
            /\ worker[w].ret.id = runner[w].job
            /\ returned[runner[w].job] = 1
            /\ JobState(job_queue, runner[w].job) = "claimed"
            /\ \A v \in Workers \ {w} :
                    ~(worker[v].ret.kind = "job" /\ worker[v].ret.id = runner[w].job)]_vars
    /\ [][\A id \in JobIds :
            (returned[id] = 1 /\ \E w \in Workers : runner[w].failed # "none")
                => returned'[id] = 1]_vars

\* one worker has executed a job, the other has failed a pass with another
\* job, and both jobs are still in the table, claimed
C35_Witness ==
    \E v, w \in Workers :
        /\ runner[v].pc = "panicked" /\ runner[v].job # 0
        /\ runner[w].pc = "idle" /\ runner[w].failed = "db" /\ runner[w].job # 0
        /\ runner[w].job # runner[v].job
        /\ JobState(job_queue, runner[v].job) = "claimed"
        /\ JobState(job_queue, runner[w].job) = "claimed"
        /\ Pending(job_queue) = {}

\* C36: for every priority p (unsigned 16-bit) given to track, and through it
\* to enqueue_with_priority, or to update_config, the priority column of the
\* branch row and of the job row written, read as a number, equals p.
C36_StoredPriorityIsSupplied ==
    /\ (TrackReturned /\ last[1].ret = "Ok") =>
            \A r \in last[1].addB \cup last[1].addJ :
                r.priority = unwrap_or(last[1].info.priority, DefaultPriority)
    /\ (UpdateReturned /\ last[1].ret = "Ok" /\ last[1].info.priority # None) =>
            \A r \in last[1].addB : r.priority = last[1].info.priority[1]

\* a track given the priority 32768 has returned Ok
TrackStoredHighPriority ==
    /\ TrackReturned /\ last[1].ret = "Ok"
    /\ last[1].info.priority = Some(32768)
    /\ \A r \in last[1].addB \cup last[1].addJ : r.priority = -32768

\* the pool sizes a deployment is configured with: 1, which the in-memory
\* engine needs, and the default
PoolSizes == {1, max_connections}

\* the state after construction, the pool built with either size
PoolInit ==
    /\ QInit /\ BInit /\ RInit /\ AInit
    /\ redis_lock = None
    /\ proc = [p \in Procs |-> IdleProc]
    /\ unlock_task = [p \in Procs |-> "none"]
    /\ schema = FALSE
    /\ max_size \in PoolSizes

\* a step of the call that caller c is inside
CallerStep(c) ==
    \/ track_resolve(c)
    \/ track_insert_branch(c)
    \/ track_enqueue(c)
    \/ transaction_commit(c)
    \/ transaction_rollback(c)
    \/ untrack_delete(c)
    \/ update_config_resolve(c)
    \/ update_config_execute(c)

\* the branch service alone, one call at a time, on a pool of either size:
\* the runtime polls a task that can go on, and the database answers every
\* statement
SpecPoolLive ==
    /\ PoolInit
    /\ [][SerialBranchNext]_vars
    /\ \A c \in Callers : WF_vars(CallerStep(c))

\* C37: no operation waits for a pooled connection while it holds one: on a
\* pool of maximum size 1 whose connection no other task holds, every call,
\* track and update_config with a base name to resolve included, completes.
C37_CompletesOnPoolOfOne ==
    \A c \in Callers :
        (max_size = 1 /\ caller[c].pc # "idle") ~> (caller[c].pc = "idle")

\* on a pool of size 1 a track is at the call of find_id_or_err, holding the
\* only connection
ResolveHoldsOnlyConnection ==
    \E c \in Callers :
        /\ max_size = 1
        /\ caller[c].pc = "t_resolve"
        /\ ConnsInUse = max_size

\* C38: transaction(body) returns Ok only when begin, body and commit have all
\* succeeded: when begin fails, body is not run (nothing is resolved, written
\* or staged) and the begin error is returned; when commit fails, the commit
\* error is returned; when rollback fails with an error other than
\* BrokenTransactionManager, the rollback error is returned and not body's.
C38_TransactionOkOnlyIfAllSucceeded ==
    (last # None /\ last[1].op \in {"track", "untrack"}) =>
        /\ last[1].ret = "Ok" =>
                /\ last[1].faults = {}
                /\ last[1].err = "none"
                /\ last[1].end = <<"commit", "Ok">>
        /\ "begin" \in last[1].faults =>
                /\ last[1].ret = "BeginError"
                /\ last[1].end = <<"none", "none">>
                /\ last[1].err = "none"
                /\ last[1].tx = EmptyTx
                /\ last[1].base = None /\ last[1].new_id = 0
                /\ NoTableChange(last[1])
        /\ (last[1].end[1] = "commit" /\ last[1].end[2] # "Ok") =>
                last[1].ret = "CommitError"
        /\ last[1].end = <<"rollback", "Err">> =>
                /\ last[1].ret = "RollbackError"
                /\ last[1].ret # last[1].err

\* a track whose body succeeded and staged its two rows has returned the
\* commit error
C38_Witness ==
    /\ TrackReturned
    /\ last[1].end = <<"commit", "Err">>
    /\ last[1].tx.insB # {} /\ last[1].tx.insJ # {}
    /\ last[1].err = "none"
    /\ last[1].ret = "CommitError"

\* a command of a variant that this build's JobCommand does not define, as a
\* build that defines it serializes it
UnknownCommand == [t |-> "BuildPackage", c |-> 1]

\* the job queue shared with a build that enqueues UnknownCommand
DecodeNext ==
    \/ \E job \in JobCommands \cup {UnknownCommand} : enqueue(job)
    \/ \E w \in Workers : fetch_and_start_begin(w)
    \/ \E w \in Workers : fetch_and_start_select(w)
    \/ \E w \in Workers : fetch_and_start_update(w)
    \/ \E id \in JobIds : finish_job(id)

SpecDecode == Init /\ [][DecodeNext]_vars

\* the row of job id cannot be decoded by this build
Undecodable(r) == ~deserialize(r.kind, from_sql(r.data)).ok

\* C39: fetch_and_start sets started_at before it decodes the command: when
\* (kind, data) of the selected row cannot be deserialized the call returns
\* the error and the row stays claimed; later calls skip that row and return
\* the next candidate, so an undecodable job is never returned and never
\* keeps a call from the unclaimed jobs behind it.
C39_UndecodableJobDoesNotBlock ==
    /\ []((FetchReturned /\ last[1].ret = "err") =>
            /\ JobState(job_queue, last[1].id) = "claimed"
            /\ Undecodable(JobRow(job_queue, last[1].id))
            /\ last[1].claimed # {}
            /\ \A r \in last[1].claimed : r.id = last[1].id /\ r.started_at = None)
    /\ [](\A r \in job_queue : Undecodable(r) => returned[r.id] = 0)
    /\ []((FetchReturned /\ last[1].ret = "job") =>
            ~Undecodable(CHOOSE r \in last[1].claimed : TRUE))
    /\ [][\A w \in Workers : fetch_and_start_select(w) =>
            IF Pending(job_queue) = {}
            THEN worker'[w].ret.kind = "empty"
            ELSE /\ worker'[w].pc = "update"
                 /\ JobState(job_queue, worker'[w].sel[1].id) = "unclaimed"]_vars

\* a call has returned a job enqueued after an undecodable job, which is in
\* the table, claimed and never returned
C39_Witness ==
    /\ FetchReturned /\ last[1].ret = "job"
    /\ \E r \in job_queue :
        /\ Undecodable(r)
        /\ r.started_at # None
        /\ r.id < last[1].id
        /\ returned[r.id] = 0

\* the branch service, one call at a time, and the pollers of the job queue
UntrackNext ==
    \/ CallersIdle /\ \E c \in Callers, name \in Names, info \in ConcInfos :
            track_begin(c, name, info)
    \/ \E c \in Callers : track_resolve(c)
    \/ \E c \in Callers : track_insert_branch(c)
    \/ \E c \in Callers : track_enqueue(c)
    \/ \E c \in Callers : transaction_commit(c)
    \/ \E c \in Callers : transaction_rollback(c)
    \/ CallersIdle /\ \E c \in Callers, id \in BranchIds : untrack_begin(c, id)
    \/ \E c \in Callers : untrack_delete(c)
    \/ \E w \in Workers : fetch_and_start_begin(w)
    \/ \E w \in Workers : fetch_and_start_select(w)
    \/ \E w \in Workers : fetch_and_start_update(w)

SpecUntrack == Init /\ [][UntrackNext]_vars

\* a step of an untrack call of caller c
UntrackStep(c) ==
    \/ \E id \in BranchIds : untrack_begin(c, id)
    \/ caller[c].op = "untrack" /\ CallerStep(c)

\* C40: untrack(id) changes only table branch: no step of the call adds,
\* removes or changes a job_queue row, the SyncBranch(id) job of the deleted
\* branch included, whether pending or claimed; the pollers go on selecting
\* the first unclaimed row, whether its branch exists or not.
C40_UntrackLeavesJobs ==
    /\ [][\A c \in Callers : UntrackStep(c) =>
            /\ job_queue' = job_queue
            /\ \A w \in Workers : worker'[w] = worker[w]]_vars
    /\ []((UntrackReturned /\ last[1].ret = "Ok") =>
            /\ last[1].addJ = {} /\ last[1].delJ = {}
            /\ ~IdExists(last[1].id))
    /\ [][\A w \in Workers : fetch_and_start_select(w) =>
            IF Pending(job_queue) = {}
            THEN worker'[w].ret.kind = "empty"
            ELSE \E r \in Pending(job_queue) :
                    r.id = worker'[w].sel[1].id /\ BestStored(job_queue, r)]_vars

\* the branch b has been tracked and then untracked
Untracked(b) == b \in 1..branch_seq /\ ~IdExists(b)

\* a poller has been returned the SyncBranch job of a branch that was
\* untracked while the job was pending
C40_Witness ==
    /\ FetchReturned /\ last[1].ret = "job"
    /\ worker[last[1].w].ret.command.t = "SyncBranch"
    /\ Untracked(worker[last[1].w].ret.command.c)
    /\ CallersIdle

====
